---- MODULE Spec2Model ----
(***************************************************************************)
(* The Glicko-2 rating engine of core/services/glicko2_service.py          *)
(* (class Glicko2Calculator) as a state machine.                           *)
(*                                                                         *)
(* A Python float is modelled as a binary floating-point number            *)
(* [m |-> significand, e |-> exponent] of value m * 2^e with a 29-bit      *)
(* significand, gradual underflow, infinities and NaN.  Every arithmetic   *)
(* operation rounds its exact result to the nearest representable value,   *)
(* ties to even, as IEEE-754 arithmetic does; only the width differs from  *)
(* the 53-bit doubles of CPython, so that every intermediate integer fits  *)
(* in 32 bits.                                                             *)
(***************************************************************************)
EXTENDS Integers, Sequences, FiniteSets, TLC

(***************************************************************************)
(* Floating-point arithmetic.                                              *)
(***************************************************************************)
\* Bits of the significand.
PRECISION == 29
\* Smallest significand of a normal number, and one past the largest.
HID == 268435456
TOP == 536870912
\* Exponent of the subnormal numbers; the smallest normal number is 2^-126.
EMIN == -154
\* Largest exponent of a finite number.
EMAX == 99

Pow2Table ==
    << 1, 2, 4, 8, 16, 32, 64, 128, 256, 512, 1024, 2048, 4096, 8192, 16384,
       32768, 65536, 131072, 262144, 524288, 1048576, 2097152, 4194304,
       8388608, 16777216, 33554432, 67108864, 134217728, 268435456,
       536870912, 1073741824 >>

\* 2^k for 0 <= k <= 30.
Pow2(k) == Pow2Table[k + 1]

Abs(x) == IF x < 0 THEN -x ELSE x

Max(x, y) == IF x >= y THEN x ELSE y

Sign(x) == IF x > 0 THEN 1 ELSE IF x < 0 THEN -1 ELSE 0

Float(m, e) == [m |-> m, e |-> e]

Zero == Float(0, EMIN)
Inf == Float(1, EMAX + 1)
NegInf == Float(-1, EMAX + 1)
NaN == Float(0, EMAX + 1)

IsNaN(a) == a = NaN
IsInf(a) == a.e > EMAX /\ a.m # 0
IsFinite(a) == a.e <= EMAX
IsZero(a) == a.m = 0 /\ a.e <= EMAX
Sgn(a) == Sign(a.m)
SignedInf(sign) == IF sign > 0 THEN Inf ELSE NegInf

\* Number of bits of M, for 0 <= M < 2^n.
RECURSIVE BitLenFrom(_, _)
BitLenFrom(M, n) ==
    IF n = 0 THEN 0
    ELSE IF M >= Pow2(n - 1) THEN n ELSE BitLenFrom(M, n - 1)

BitLen(M) == BitLenFrom(M, 31)

\* M / 2^s (s >= 1) rounded to the nearest integer, ties to even; sticky
\* tells that nonzero bits were already dropped below M.
ShiftRightRound(M, s, sticky) ==
    IF s > 31 THEN 0
    ELSE IF s = 31
    THEN (IF M > Pow2(30) \/ (M = Pow2(30) /\ sticky) THEN 1 ELSE 0)
    ELSE LET q    == M \div Pow2(s)
             r    == M % Pow2(s)
             half == Pow2(s - 1)
         IN  IF r > half \/ (r = half /\ (sticky \/ q % 2 = 1))
             THEN q + 1 ELSE q

\* sign * q * 2^e with q <= TOP already rounded: renormalises a carry out
\* of the significand and overflows to infinity.
Pack(sign, q, e) ==
    IF q = 0 THEN Zero
    ELSE IF q = TOP
    THEN (IF e + 1 > EMAX THEN SignedInf(sign) ELSE Float(sign * HID, e + 1))
    ELSE IF e > EMAX THEN SignedInf(sign)
    ELSE Float(sign * q, e)

\* Shifts M right by s > 0 with rounding, or left by -s exactly.
NormShift(sign, M, e, sticky, s) ==
    IF s > 0
    THEN Pack(sign, ShiftRightRound(M, s, sticky), e + s)
    ELSE Pack(sign, M * Pow2(-s), e + s)

\* sign * M * 2^e for 0 <= M < 2^31, rounded into the format.
Norm(sign, M, e, sticky) ==
    IF M = 0 THEN Zero
    ELSE NormShift(sign, M, e, sticky, Max(BitLen(M) - PRECISION, EMIN - e))

UnpackBy(m, e, k) == Float(m * Pow2(k), e - k)

\* |a| with its significand brought into [HID, TOP) (the exponent may fall
\* below EMIN), for finite a # 0.
Unpack(a) == UnpackBy(Abs(a.m), a.e, PRECISION - BitLen(Abs(a.m)))

\* The float of the integer n.
FromInt(n) == Norm(IF n >= 0 THEN 1 ELSE -1, Abs(n), 0, FALSE)

Neg(a) == Float(-a.m, a.e)

FAbs(a) == Float(Abs(a.m), a.e)

\* a + b for finite a, b with a.e >= b.e: b is aligned to a with g guard
\* bits (two when the signs differ, where leading bits can cancel).
AddAligned(a, b, d, g) ==
    LET t    == Pow2(g) * b.m
        lo   == IF d <= 30 THEN t \div Pow2(d) ELSE IF t >= 0 THEN 0 ELSE -1
        frac == IF d <= 30 THEN t % Pow2(d) # 0 ELSE t # 0
        S    == Pow2(g) * a.m + lo
    IN  IF S >= 0 THEN Norm(1, S, a.e - g, frac)
        ELSE IF frac THEN Norm(-1, -S - 1, a.e - g, TRUE)
        ELSE Norm(-1, -S, a.e - g, FALSE)

AddOrdered(a, b) ==
    IF a.e - b.e > 31 THEN a
    ELSE AddAligned(a, b, a.e - b.e, IF Sgn(a) = Sgn(b) THEN 1 ELSE 2)

\* The float sum a + b.
FAdd(a, b) ==
    IF IsNaN(a) \/ IsNaN(b) THEN NaN
    ELSE IF IsInf(a) THEN (IF IsInf(b) /\ b.m # a.m THEN NaN ELSE a)
    ELSE IF IsInf(b) THEN b
    ELSE IF a.e >= b.e THEN AddOrdered(a, b) ELSE AddOrdered(b, a)

\* The float difference a - b.
FSub(a, b) == FAdd(a, Neg(b))

\* sg * x * y for unpacked x, y: the 58-bit product by 15-bit limbs.
MulUnpacked(sg, x, y) ==
    LET xa  == x.m \div 32768
        xb  == x.m % 32768
        ya  == y.m \div 32768
        yb  == y.m % 32768
        mid == xa * yb + xb * ya
        L   == (mid % 32768) * 32768 + xb * yb
        H   == xa * ya + mid \div 32768 + L \div Pow2(30)
        Lr  == L % Pow2(30)
    IN  Norm(sg, H * 8 + Lr \div Pow2(27), x.e + y.e + 27, Lr % Pow2(27) # 0)

\* The float product a * b.
FMul(a, b) ==
    IF IsNaN(a) \/ IsNaN(b) THEN NaN
    ELSE IF IsInf(a) \/ IsInf(b)
    THEN (IF Sgn(a) * Sgn(b) = 0 THEN NaN ELSE SignedInf(Sgn(a) * Sgn(b)))
    ELSE IF Sgn(a) * Sgn(b) = 0 THEN Zero
    ELSE MulUnpacked(Sgn(a) * Sgn(b), Unpack(a), Unpack(b))

\* <<floor(r * 4^n / y), (r * 4^n) % y>> added to 4^n * q, for 0 <= r < y < TOP.
RECURSIVE QuotBits(_, _, _, _)
QuotBits(q, r, y, n) ==
    IF n = 0 \/ r = 0 THEN <<q * Pow2(2 * n), r>>
    ELSE QuotBits(4 * q + (4 * r) \div y, (4 * r) % y, y, n - 1)

DivQuot(sg, qr, e) == Norm(sg, qr[1], e, qr[2] # 0)

DivUnpacked(sg, x, y) ==
    DivQuot(sg, QuotBits(x.m \div y.m, x.m % y.m, y.m, 15), x.e - y.e - 30)

\* The float quotient a / b; b = 0 is the caller's ZeroDivisionError.
FDiv(a, b) ==
    IF IsNaN(a) \/ IsNaN(b) THEN NaN
    ELSE IF IsInf(a)
    THEN (IF IsInf(b) THEN NaN
          ELSE SignedInf(IF Sgn(b) < 0 THEN -Sgn(a) ELSE Sgn(a)))
    ELSE IF IsInf(b) THEN Zero
    ELSE IF IsZero(b) THEN NaN
    ELSE IF IsZero(a) THEN Zero
    ELSE DivUnpacked(Sgn(a) * Sgn(b), Unpack(a), Unpack(b))

\* a < b on finite floats: by sign, then exponent, then significand.
LtFinite(a, b) ==
    IF a.m >= 0 /\ b.m >= 0 THEN a.e < b.e \/ (a.e = b.e /\ a.m < b.m)
    ELSE IF a.m < 0 /\ b.m < 0 THEN a.e > b.e \/ (a.e = b.e /\ a.m < b.m)
    ELSE a.m < b.m

\* The float comparison a < b (false when either is NaN).
FLt(a, b) ==
    IF IsNaN(a) \/ IsNaN(b) \/ a = b THEN FALSE
    ELSE IF IsInf(a) THEN a.m < 0
    ELSE IF IsInf(b) THEN b.m > 0
    ELSE LtFinite(a, b)

FLe(a, b) == ~IsNaN(a) /\ ~IsNaN(b) /\ (a = b \/ FLt(a, b))

FGt(a, b) == FLt(b, a)

FGe(a, b) == FLe(b, a)

\* The float nearest to n / 10^k: how the decimal literal is read.
Dec(n, k) == FDiv(FromInt(n), FromInt(10 ^ k))

One == FromInt(1)
Two == FromInt(2)
Three == FromInt(3)

\* a * 2^n, exact unless it underflows or overflows.
Scale2(a, n) ==
    IF ~IsFinite(a) \/ IsZero(a) THEN a
    ELSE Norm(Sgn(a), Abs(a.m), a.e + n, FALSE)

\* floor(a) as an integer, for finite |a| < 2^30.
FloorInt(a) ==
    IF a.e >= 0 THEN a.m * Pow2(a.e)
    ELSE IF -a.e > 30 THEN (IF a.m >= 0 THEN 0 ELSE -1)
    ELSE a.m \div Pow2(-a.e)

\* The integer nearest to a.
RoundInt(a) == FloorInt(FAdd(a, Scale2(One, -1)))

LN2 == Dec(693147181, 9)
PI == Dec(314159265, 8)
SQRT2 == Dec(141421356, 8)

\* Terms of the Taylor series of exp on [-ln2/2, ln2/2].
EXP_TERMS == 13

\* Horner form of the series: acc_k = 1 + (r * acc_(k+1)) / k.
RECURSIVE ExpSeries(_, _, _)
ExpSeries(r, k, acc) ==
    IF k = 0 \/ ~IsFinite(acc) THEN acc
    ELSE ExpSeries(r, k - 1, FAdd(One, FDiv(FMul(r, acc), FromInt(k))))

ExpReduced(x, n) == Scale2(ExpSeries(FSub(x, FMul(FromInt(n), LN2)), EXP_TERMS, One), n)

\* math.exp(x): x = n * ln 2 + r, exp(x) = 2^n * exp(r); it underflows to 0
\* and overflows to infinity at the ends of the exponent range.
Exp(x) ==
    IF IsNaN(x) THEN NaN
    ELSE IF IsInf(x) THEN (IF x.m > 0 THEN Inf ELSE Zero)
    ELSE IF FGt(x, FromInt(89)) THEN Inf
    ELSE IF FLt(x, FromInt(-110)) THEN Zero
    ELSE ExpReduced(x, RoundInt(FDiv(x, LN2)))

\* math.exp(x) raises OverflowError ("math range error") where exp(x) of a
\* finite x is beyond the largest float.
ExpRaises(x) == IsFinite(x) /\ IsInf(Exp(x))

\* Terms of the series of atanh.
LN_TERMS == 8

\* Horner form in z^2: acc_j = 1 / (2j + 1) + z^2 * acc_(j+1).
RECURSIVE LnSeries(_, _, _)
LnSeries(z2, j, acc) ==
    IF j < 0 \/ ~IsFinite(acc) THEN acc
    ELSE LnSeries(z2, j - 1, FAdd(FDiv(One, FromInt(2 * j + 1)), FMul(z2, acc)))

LnAtanh(z, k) ==
    FAdd(FMul(FromInt(k), LN2),
         FMul(Two, FMul(z, LnSeries(FMul(z, z), LN_TERMS, Zero))))

LnMantissa(mant, k) == LnAtanh(FDiv(FSub(mant, One), FAdd(mant, One)), k)

LnUnpacked(u) ==
    IF FGt(Float(u.m, -28), SQRT2)
    THEN LnMantissa(Float(u.m, -29), u.e + 29)
    ELSE LnMantissa(Float(u.m, -28), u.e + 28)

\* math.log(y) for y > 0 (y <= 0 is the caller's ValueError):
\* y = 2^k * mant with mant in [sqrt(2)/2, sqrt(2)],
\* ln mant = 2 * atanh((mant - 1) / (mant + 1)).
Ln(y) ==
    IF IsNaN(y) THEN NaN
    ELSE IF IsInf(y) THEN Inf
    ELSE LnUnpacked(Unpack(y))

\* Newton steps of the square root.
SQRT_ITERS == 6

RECURSIVE SqrtNewton(_, _, _)
SqrtNewton(y, x, n) ==
    IF n = 0 \/ ~IsFinite(x) THEN x
    ELSE SqrtNewton(y, Scale2(FAdd(x, FDiv(y, x)), -1), n - 1)

SqrtFrom(y, u) == SqrtNewton(y, Float(HID, -28 + ((u.e + 28) \div 2)), SQRT_ITERS)

\* math.sqrt(y) for y >= 0, by Newton's iteration from the power of two
\* nearest below it.
Sqrt(y) ==
    IF IsNaN(y) THEN NaN
    ELSE IF IsZero(y) \/ IsInf(y) THEN y
    ELSE SqrtFrom(y, Unpack(y))

(***************************************************************************)
(* Glicko2Calculator: constants and pure helpers.                          *)
(***************************************************************************)
SCALE == Dec(1737178, 4)
EPSILON == Dec(1, 6)
\* The literals 1500 and 350 of the scale conversion and of the decay cap.
BASE_RATING == FromInt(1500)
MAX_RD == FromInt(350)

\* x**2.
Sq(x) == FMul(x, x)

\* The constructor's guard "0.2 <= tau <= 1.5", strict at both ends.
TauValidStrict(tau) == FLt(Dec(2, 1), tau) /\ FLt(tau, Dec(15, 1))

\* The constructor's guard "0.2 <= tau <= 1.5".
TauValid(tau) == FLe(Dec(2, 1), tau) /\ FLe(tau, Dec(15, 1))

\* _scale_to_glicko2: <<mu, phi>>.
ScaleToGlicko2(rating, rd) ==
    <<FDiv(FSub(rating, BASE_RATING), SCALE), FDiv(rd, SCALE)>>

\* _scale_to_glicko with mu written where phi belongs in "rd = phi * SCALE".
ScaleToGlickoTypo(mu, phi) ==
    <<FAdd(FMul(mu, SCALE), BASE_RATING), FMul(mu, SCALE)>>

\* _scale_to_glicko: <<rating, rd>>.
ScaleToGlicko(mu, phi) ==
    <<FAdd(FMul(mu, SCALE), BASE_RATING), FMul(phi, SCALE)>>

\* _g without the opponent's uncertainty discount.
GUndiscounted(phi) == One

\* _g: 1 / sqrt(1 + 3 * phi**2 / pi**2).
G(phi) == FDiv(One, Sqrt(FAdd(One, FDiv(FMul(Three, Sq(phi)), Sq(PI)))))

\* _E without the opponent's rating: 1 / (1 + exp(-g(phi_j) * mu)).
EAgainstBase(mu, mu_j, phi_j) ==
    FDiv(One, FAdd(One, Exp(FMul(Neg(G(phi_j)), mu))))

\* _E: 1 / (1 + exp(-g(phi_j) * (mu - mu_j))).
E(mu, mu_j, phi_j) ==
    FDiv(One, FAdd(One, Exp(FMul(Neg(G(phi_j)), FSub(mu, mu_j)))))

\* _E leaves through the OverflowError of its math.exp.
ERaises(mu, mu_j, phi_j) == ExpRaises(FMul(Neg(G(phi_j)), FSub(mu, mu_j)))

\* An opponent whose outcome is read as a class (win from 0.5 up, else loss)
\* and not as a score.
OpponentG2Discrete(opp) ==
    [mu  |-> ScaleToGlicko2(opp.rating, opp.rating_deviation)[1],
     phi |-> ScaleToGlicko2(opp.rating, opp.rating_deviation)[2],
     s   |-> IF FGe(opp.outcome, Dec(5, 1)) THEN One ELSE Zero]

\* One opponent on the Glicko-2 scale, with the game's outcome.
OpponentG2(opp) ==
    [mu  |-> ScaleToGlicko2(opp.rating, opp.rating_deviation)[1],
     phi |-> ScaleToGlicko2(opp.rating, opp.rating_deviation)[2],
     s   |-> opp.outcome]

\* Step 2 of update_rating: opponents_g2 and outcomes.
OpponentsG2(opponents) ==
    [j \in 1..Len(opponents) |-> OpponentG2(opponents[j])]

\* g**2 * E * (1 - E).
VTerm(g, e) == FMul(FMul(Sq(g), e), FSub(One, e))

\* The loop of _v from opponent j on, v_inv so far in acc.
RECURSIVE VInv(_, _, _, _)
VInv(mu, opps, j, acc) ==
    IF j > Len(opps) \/ IsNaN(acc) THEN acc
    ELSE VInv(mu, opps, j + 1,
              FAdd(acc, VTerm(G(opps[j].phi), E(mu, opps[j].mu, opps[j].phi))))

\* _v without its guard: "return 1 / v_inv".
VOfUnguarded(v_inv) == FDiv(One, v_inv)

\* "return 1 / v_inv if v_inv > 0 else float('inf')".
VOf(v_inv) == IF FGt(v_inv, Zero) THEN FDiv(One, v_inv) ELSE Inf

\* _v.
V(mu, opps) == VOf(VInv(mu, opps, 1, Zero))

\* The loop of _delta (and of step 7's improvement) from opponent j on.
RECURSIVE DeltaSum(_, _, _, _)
DeltaSum(mu, opps, j, acc) ==
    IF j > Len(opps) \/ IsNaN(acc) THEN acc
    ELSE DeltaSum(mu, opps, j + 1,
                  FAdd(acc, FMul(G(opps[j].phi),
                                 FSub(opps[j].s, E(mu, opps[j].mu, opps[j].phi)))))

\* _delta.
Delta(mu, v, opps) == FMul(v, DeltaSum(mu, opps, 1, Zero))

\* The body of f with ex = exp(x):
\* ex * (delta**2 - phi**2 - v - ex) / (2 * (phi**2 + v + ex)**2)
\*   - (x - a) / tau**2.
FOf(ex, x, delta, phi, v, a, tau) ==
    FSub(FDiv(FMul(ex, FSub(FSub(FSub(Sq(delta), Sq(phi)), v), ex)),
              FMul(Two, Sq(FAdd(FAdd(Sq(phi), v), ex)))),
         FDiv(FSub(x, a), Sq(tau)))

\* The function f of _new_volatility.
F(x, delta, phi, v, a, tau) == FOf(Exp(x), x, delta, phi, v, a, tau)

(***************************************************************************)
(* _new_volatility: the bracket and the Illinois iteration.                *)
(***************************************************************************)
\* "a = math.log(sigma**2)" raises ValueError (math domain error) at 0.
LogRaises(sigma) == IsZero(Sq(sigma))

\* "if delta**2 > phi**2 + v".
DeltaDominates(delta, phi, v) == FGt(Sq(delta), FAdd(Sq(phi), v))

\* "B = math.log(delta**2 - phi**2 - v)".
DominatedB(delta, phi, v) == Ln(FSub(FSub(Sq(delta), Sq(phi)), v))

\* "a - k * self.tau".
BracketPoint(a, k, tau) == FSub(a, FMul(FromInt(k), tau))

\* The loop read as "increase k until f(a - k * tau) is negative".
BracketGuardUntilNegative(k, delta, phi, v, a, tau) ==
    ~FLt(F(BracketPoint(a, k, tau), delta, phi, v, a, tau), Zero)

\* The test of "while f(a - k * self.tau) < 0".
BracketGuard(k, delta, phi, v, a, tau) ==
    FLt(F(BracketPoint(a, k, tau), delta, phi, v, a, tau), Zero)

\* "fA = f(A)" and "fB = f(B)".
SolverInit(A, B, delta, phi, v, a, tau) ==
    [A |-> A, B |-> B,
     fA |-> F(A, delta, phi, v, a, tau), fB |-> F(B, delta, phi, v, a, tau)]

\* The test of "while abs(B - A) > self.EPSILON".
LoopGuard(st) == FGt(FAbs(FSub(st.B, st.A)), EPSILON)

\* The division by fB - fA raises ZeroDivisionError when it is 0.
InterpolationRaises(st) == IsZero(FSub(st.fB, st.fA))

\* "C = A + (A - B) * fA / (fB - fA)".
Interpolate(st) ==
    FAdd(st.A, FDiv(FMul(FSub(st.A, st.B), st.fA), FSub(st.fB, st.fA)))

\* The test of "if fC * fB < 0".
ProductNegative(fC, fB) == FLt(FMul(fC, fB), Zero)

\* The loop body after C and fC are known, without the halving of fA.
IllinoisUpdateNoHalving(st, C, fC) ==
    IF ProductNegative(fC, st.fB)
    THEN [A |-> st.B, B |-> C, fA |-> st.fB, fB |-> fC]
    ELSE [A |-> st.A, B |-> C, fA |-> st.fA, fB |-> fC]

\* The loop body after C and fC are known:
\* "if fC * fB < 0: A = B; fA = fB  else: fA = fA / 2", then "B = C; fB = fC".
IllinoisUpdate(st, C, fC) ==
    IF ProductNegative(fC, st.fB)
    THEN [A |-> st.B, B |-> C, fA |-> st.fB, fB |-> fC]
    ELSE [A |-> st.A, B |-> C, fA |-> FDiv(st.fA, Two), fB |-> fC]

IllinoisAt(st, C, delta, phi, v, a, tau) ==
    IllinoisUpdate(st, C, F(C, delta, phi, v, a, tau))

\* One pass through the body of the Illinois loop.
IllinoisBody(st, delta, phi, v, a, tau) ==
    IllinoisAt(st, Interpolate(st), delta, phi, v, a, tau)

\* "return math.exp(A / 2)".
SolverResult(st) == Exp(FDiv(st.A, Two))

(***************************************************************************)
(* update_rating: the steps around the solver.                             *)
(***************************************************************************)
\* "rd_increase = days_since_last * 0.5".
RD_INCREASE_PER_DAY == Dec(5, 1)

\* The decay without its ceiling.
DecayNoCap(x) == x

\* "min(350, x)".
DecayMin(x) == IF FLt(x, MAX_RD) THEN x ELSE MAX_RD

\* The decay and its ceiling applied on every call, days_since_last = 0
\* included.
DecayOnEveryCall(rd, days) ==
    DecayMin(Sqrt(FAdd(Sq(rd), FMul(FromInt(days), RD_INCREASE_PER_DAY))))

\* "if days_since_last > 0: rd = min(350, sqrt(rd**2 + rd_increase))".
Decay(rd, days) ==
    IF days > 0
    THEN DecayMin(Sqrt(FAdd(Sq(rd), FMul(FromInt(days), RD_INCREASE_PER_DAY))))
    ELSE rd

RatingUpdate(rating, rd, volatility) ==
    [rating |-> rating, rating_deviation |-> rd, volatility |-> volatility,
     kind |-> "RatingUpdate"]

Raised(name) ==
    [rating |-> Zero, rating_deviation |-> Zero, volatility |-> Zero, kind |-> name]

NoResult == Raised("none")

RatingUpdateOf(back, new_sigma) == RatingUpdate(back[1], back[2], new_sigma)

\* Step 7's "new_mu = mu + new_phi**2 * improvement" and step 8.
PostStep8(mu, new_sigma, opps, new_phi) ==
    RatingUpdateOf(
        ScaleToGlicko(FAdd(mu, FMul(Sq(new_phi), DeltaSum(mu, opps, 1, Zero))),
                      new_phi),
        new_sigma)

\* new_phi without the reciprocal: "new_phi = math.sqrt(...)".
PostNewPhiNoInverse(mu, new_sigma, opps, root) ==
    PostStep8(mu, new_sigma, opps, root)

\* "new_phi = 1 / math.sqrt(...)" with the square root known.
PostNewPhi(mu, new_sigma, opps, root) ==
    IF IsZero(root) THEN Raised("ZeroDivisionError")
    ELSE PostStep8(mu, new_sigma, opps, FDiv(One, root))

\* Step 7's "1/phi_star**2 + 1/v" with phi_star**2 known.
PostStep7(mu, v, new_sigma, opps, phi_star2) ==
    IF IsZero(phi_star2) \/ IsZero(v) THEN Raised("ZeroDivisionError")
    ELSE PostNewPhi(mu, new_sigma, opps,
                    Sqrt(FAdd(FDiv(One, phi_star2), FDiv(One, v))))

\* Steps 6-8 of update_rating, after the new volatility is known.
PostUpdate(mu, phi, v, new_sigma, opps) ==
    PostStep7(mu, v, new_sigma, opps, Sq(Sqrt(FAdd(Sq(phi), Sq(new_sigma)))))

(***************************************************************************)
(* State.                                                                  *)
(***************************************************************************)
VARIABLES
    engine,     \* the Glicko2Calculator instance: whether built, and self.tau
    subject,    \* per caller: the stored rating, rd and volatility of its subject
    updates,    \* per caller: update_rating calls completed
    pc,         \* per caller: position inside update_rating
    args,       \* per caller: the arguments of the call in progress
    frame,      \* per call frame: the locals of update_rating/_new_volatility
    result,     \* per caller: what the last call returned or raised
    songs,      \* the songs table: song_id -> row
    comparisons,    \* the comparisons table in insertion order
    admin_actions,  \* the admin_actions table in insertion order
    session_state,  \* st.session_state of the one browser session
    rating_table    \* what calc.update_rating returns, by its arguments

\* The tables and the session of the application.
app == <<songs, comparisons, admin_actions, session_state, rating_table>>

vars == <<engine, subject, updates, pc, args, frame, result, app>>

\* No database is attached and no page is open: the calculator is used on
\* its own.
NoApp ==
    /\ songs = <<>>
    /\ comparisons = <<>>
    /\ admin_actions = <<>>
    /\ session_state = <<>>
    /\ rating_table = <<>>

\* Callers that share the one calculator instance.
Threads == {1, 2}

\* One frame for every caller: the solver's locals kept on the instance.
SharedFrame(t) == 1

\* The call frame of caller t: each call has locals of its own.
FrameOf(t) == t

NoArgs ==
    [rating |-> Zero, rd |-> Zero, opponents |-> <<>>, days |-> 0,
     volatility |-> Zero, op |-> "none"]

NoFrame ==
    [k |-> 0, a |-> Zero, mu |-> Zero, phi |-> Zero, v |-> Zero, delta |-> Zero,
     A |-> Zero, B |-> Zero, fA |-> Zero, fB |-> Zero]

Opponent(rating, rd, outcome) ==
    [rating |-> rating, rating_deviation |-> rd, outcome |-> outcome]

Subject(rating, rd, volatility) ==
    [rating |-> rating, rd |-> rd, volatility |-> volatility]

(***************************************************************************)
(* Actions.                                                                *)
(***************************************************************************)
\* Glicko2Calculator(tau): raises ValueError and builds nothing unless
\* 0.2 <= tau <= 1.5; otherwise stores tau.
Construct(tau) ==
    /\ engine.status = "none"
    /\ engine' = IF TauValid(tau)
                 THEN [tau |-> tau, status |-> "ready", given |-> tau]
                 ELSE [tau |-> Zero, status |-> "failed", given |-> tau]
    /\ UNCHANGED <<subject, updates, pc, args, frame, result, app>>

Entry(pcv, fr, res) == [pc |-> pcv, frame |-> fr, result |-> res]

\* Entering the Illinois loop with A and B known.
EntryIllinois(fr, st) ==
    Entry("illinois",
          [fr EXCEPT !.A = st.A, !.B = st.B, !.fA = st.fA, !.fB = st.fB],
          NoResult)

\* _new_volatility up to the choice of B, with a known.
EntrySolver(tau, mu, phi, v, delta, a) ==
    IF DeltaDominates(delta, phi, v)
    THEN EntryIllinois(
             [NoFrame EXCEPT !.mu = mu, !.phi = phi, !.v = v, !.delta = delta,
                             !.a = a],
             SolverInit(a, DominatedB(delta, phi, v), delta, phi, v, a, tau))
    ELSE Entry("bracket",
               [NoFrame EXCEPT !.mu = mu, !.phi = phi, !.v = v, !.delta = delta,
                               !.a = a, !.k = 1, !.A = a],
               NoResult)

\* Step 5 with delta known: _new_volatility's first line.
EntryDelta(call, tau, mu, phi, v, delta) ==
    IF LogRaises(call.volatility)
    THEN Entry("raised", NoFrame, Raised("ValueError"))
    ELSE EntrySolver(tau, mu, phi, v, delta, Ln(Sq(call.volatility)))

\* Step 4 with v known.
EntryVariance(call, tau, mu, phi, opps, v) ==
    EntryDelta(call, tau, mu, phi, v, Delta(mu, v, opps))

\* The math.exp of _E raises OverflowError for one of the opponents: step 3
\* is where update_rating evaluates it first.
VRaises(mu, opps) ==
    \E j \in 1..Len(opps) : ERaises(mu, opps[j].mu, opps[j].phi)

\* Step 3 with the scaled values known.
EntryScaled(call, tau, g2, opps) ==
    IF VRaises(g2[1], opps)
    THEN Entry("raised", NoFrame, Raised("OverflowError"))
    ELSE EntryVariance(call, tau, g2[1], g2[2], opps, V(g2[1], opps))

\* update_rating without the "if not opponents" return.
EntryNoShortCircuit(call, tau, rd) ==
    EntryScaled(call, tau, ScaleToGlicko2(call.rating, rd),
                OpponentsG2(call.opponents))

\* "if not opponents: return ..." and steps 1-2, with the decayed rd known.
EntryDecayed(call, tau, rd) ==
    IF Len(call.opponents) = 0
    THEN Entry("returned", NoFrame,
               RatingUpdate(call.rating, rd, call.volatility))
    ELSE EntryScaled(call, tau, ScaleToGlicko2(call.rating, rd),
                     OpponentsG2(call.opponents))

\* update_rating from its first line to the entry of the first loop it
\* reaches: [pc, frame, result] of the call.
UpdateEntry(call, tau) == EntryDecayed(call, tau, Decay(call.rd, call.days))

Call(op, rating, rd, volatility, opponents, days) ==
    [rating |-> rating, rd |-> rd, opponents |-> opponents, days |-> days,
     volatility |-> volatility, op |-> op]

FloatResult(x) == [kind |-> "float", value |-> x]

\* What the public method hands back once update_rating has produced r:
\* update_rating returns r itself, expected_rating_change returns
\* "result.rating - rating"; an exception passes through both.
ResultFor(call, r) ==
    IF call.op = "expected_rating_change" /\ r.kind = "RatingUpdate"
    THEN FloatResult(FSub(r.rating, call.rating))
    ELSE r

\* Caller t enters update_rating with the arguments in call.
Enter(t, call) ==
    /\ engine.status = "ready"
    /\ pc[t] = "idle"
    /\ \E e \in {UpdateEntry(call, engine.tau)} :
          /\ pc' = [pc EXCEPT ![t] = e.pc]
          /\ frame' = [frame EXCEPT ![FrameOf(t)] = e.frame]
          /\ result' = [result EXCEPT ![t] = ResultFor(call, e.result)]
    /\ args' = [args EXCEPT ![t] = call]
    /\ UNCHANGED <<engine, subject, updates, app>>

\* Caller t calls update_rating on its subject's stored state.
CallUpdate(t, opponents, days) ==
    Enter(t, Call("update_rating", subject[t].rating, subject[t].rd,
                  subject[t].volatility, opponents, days))

\* "volatility=0.06,  # Assume default" in expected_rating_change.
AssumedVolatility == Dec(6, 2)

\* Caller t calls expected_rating_change for its subject against opponent.
CallExpectedRatingChange(t, opponent) ==
    Enter(t, Call("expected_rating_change", subject[t].rating, subject[t].rd,
                  AssumedVolatility, <<opponent>>, 0))

\* Iterations of "while f(a - k * self.tau) < 0" the model follows.
MaxBracket == 4

\* One step of "while f(a - k * self.tau) < 0: k += 1": at "bracket" the
\* test, which enters the body or ends the loop with "B = a - k * self.tau"
\* and goes on to the Illinois loop; at "bracket_body" the increment.
BracketStep(t) ==
    /\ pc[t] \in {"bracket", "bracket_body"}
    /\ LET fr == frame[FrameOf(t)]
       IN  IF pc[t] = "bracket_body"
           THEN /\ fr.k < MaxBracket
                /\ frame' = [frame EXCEPT ![FrameOf(t)].k = fr.k + 1]
                /\ pc' = [pc EXCEPT ![t] = "bracket"]
           ELSE IF BracketGuard(fr.k, fr.delta, fr.phi, fr.v, fr.a, engine.tau)
           THEN /\ pc' = [pc EXCEPT ![t] = "bracket_body"]
                /\ UNCHANGED frame
           ELSE \E e \in {EntryIllinois(fr,
                              SolverInit(fr.a, BracketPoint(fr.a, fr.k, engine.tau),
                                         fr.delta, fr.phi, fr.v, fr.a, engine.tau))} :
                   /\ frame' = [frame EXCEPT ![FrameOf(t)] = e.frame]
                   /\ pc' = [pc EXCEPT ![t] = e.pc]
    /\ UNCHANGED <<engine, subject, updates, args, result, app>>

Solver(fr) == [A |-> fr.A, B |-> fr.B, fA |-> fr.fA, fB |-> fr.fB]

\* The test of "while abs(B - A) > self.EPSILON" holds: the body is entered.
IllinoisTest(t) ==
    /\ pc[t] = "illinois"
    /\ LoopGuard(Solver(frame[FrameOf(t)]))
    /\ pc' = [pc EXCEPT ![t] = "illinois_body"]
    /\ UNCHANGED <<engine, subject, updates, args, frame, result, app>>

\* The body of the Illinois loop, back to its test.
IllinoisStep(t) ==
    /\ pc[t] = "illinois_body"
    /\ LET fr == frame[FrameOf(t)]
       IN  IF InterpolationRaises(Solver(fr))
           THEN /\ pc' = [pc EXCEPT ![t] = "raised"]
                /\ result' = [result EXCEPT ![t] = Raised("ZeroDivisionError")]
                /\ UNCHANGED frame
           ELSE \E n \in {IllinoisBody(Solver(fr), fr.delta, fr.phi, fr.v, fr.a,
                                       engine.tau)} :
                   /\ frame' = [frame EXCEPT ![FrameOf(t)] =
                                   [fr EXCEPT !.A = n.A, !.B = n.B,
                                              !.fA = n.fA, !.fB = n.fB]]
                   /\ pc' = [pc EXCEPT ![t] = "illinois"]
                   /\ UNCHANGED result
    /\ UNCHANGED <<engine, subject, updates, args, app>>

\* The loop guard fails: _new_volatility returns and update_rating finishes.
Finish(t) ==
    /\ pc[t] = "illinois"
    /\ ~LoopGuard(Solver(frame[FrameOf(t)]))
    /\ \E r \in {PostUpdate(frame[FrameOf(t)].mu, frame[FrameOf(t)].phi,
                            frame[FrameOf(t)].v,
                            SolverResult(Solver(frame[FrameOf(t)])),
                            OpponentsG2(args[t].opponents))} :
          /\ result' = [result EXCEPT ![t] = ResultFor(args[t], r)]
          /\ pc' = [pc EXCEPT ![t] =
                       IF r.kind = "RatingUpdate" THEN "returned" ELSE "raised"]
    /\ UNCHANGED <<engine, subject, updates, args, frame, app>>

\* The caller stores the triple update_rating returned (and keeps the stored
\* one when the call raised or was only an estimate) and is ready for the
\* subject's next update.
Complete(t) ==
    /\ pc[t] \in {"returned", "raised"}
    /\ subject' = [subject EXCEPT ![t] =
                      IF pc[t] = "returned" /\ args[t].op = "update_rating"
                      THEN Subject(result[t].rating, result[t].rating_deviation,
                                   result[t].volatility)
                      ELSE @]
    /\ updates' = [updates EXCEPT ![t] = @ + 1]
    /\ pc' = [pc EXCEPT ![t] = "idle"]
    /\ UNCHANGED <<engine, args, frame, result, app>>

(***************************************************************************)
(* The read-only methods.                                                  *)
(***************************************************************************)
\* win_probability: "return self._E(mu_a, mu_b, phi_b)".
WinProbabilityOf(g2a, g2b) == E(g2a[1], g2b[1], g2b[2])

WinProbability(rating_a, rd_a, rating_b, rd_b) ==
    WinProbabilityOf(ScaleToGlicko2(rating_a, rd_a), ScaleToGlicko2(rating_b, rd_b))

\* win_probability with phi_a handed to _E in the place of phi_b.
WinProbabilityOwnDeviation(g2a, g2b) ==
    IF ERaises(g2a[1], g2b[1], g2a[2])
    THEN Raised("OverflowError")
    ELSE FloatResult(E(g2a[1], g2b[1], g2a[2]))

\* What a call of win_probability hands back: the float, or the
\* OverflowError of _E.
WinProbabilityReturn(g2a, g2b) ==
    IF ERaises(g2a[1], g2b[1], g2b[2])
    THEN Raised("OverflowError")
    ELSE FloatResult(WinProbabilityOf(g2a, g2b))

WinProbabilityResult(rating_a, rd_a, rating_b, rd_b) ==
    WinProbabilityReturn(ScaleToGlicko2(rating_a, rd_a),
                         ScaleToGlicko2(rating_b, rd_b))

DEFAULT_Z == Dec(196, 2)

\* z_scores.get with an empty table: 1.96 for every level.
ZScoreDefaultOnly(confidence) == DEFAULT_Z

\* "z_scores.get(confidence, 1.96)".
ZScore(confidence) ==
    IF confidence = Dec(90, 2) THEN Dec(1645, 3)
    ELSE IF confidence = Dec(95, 2) THEN Dec(196, 2)
    ELSE IF confidence = Dec(99, 2) THEN Dec(2576, 3)
    ELSE DEFAULT_Z

TupleResult(lower, upper) == [kind |-> "tuple", lower |-> lower, upper |-> upper]

\* "margin = z * rd" and "return (rating - margin, rating + margin)".
IntervalOf(rating, margin) == TupleResult(FSub(rating, margin), FAdd(rating, margin))

ConfidenceInterval(rating, rd, confidence) ==
    IntervalOf(rating, FMul(ZScore(confidence), rd))

StrResult(s) == [kind |-> "str", value |-> s]

\* get_confidence with "<=" in the place of "<".
GetConfidenceInclusive(rd) ==
    IF FLe(rd, FromInt(100)) THEN StrResult("Very Confident")
    ELSE IF FLe(rd, FromInt(200)) THEN StrResult("Confident")
    ELSE IF FLe(rd, FromInt(300)) THEN StrResult("Moderately Confident")
    ELSE StrResult("Uncertain")

GetConfidence(rd) ==
    IF FLt(rd, FromInt(100)) THEN StrResult("Very Confident")
    ELSE IF FLt(rd, FromInt(200)) THEN StrResult("Confident")
    ELSE IF FLt(rd, FromInt(300)) THEN StrResult("Moderately Confident")
    ELSE StrResult("Uncertain")

\* A read-only method called by t: it runs to its return in one step.
Query(t, call, value) ==
    /\ engine.status = "ready"
    /\ pc[t] = "idle"
    /\ args' = [args EXCEPT ![t] = call]
    /\ result' = [result EXCEPT ![t] = value]
    /\ UNCHANGED <<engine, subject, updates, pc, frame, app>>

CallWinProbability(t, rating_a, rd_a, rating_b, rd_b) ==
    Query(t, [op |-> "win_probability", rating_a |-> rating_a, rd_a |-> rd_a,
              rating_b |-> rating_b, rd_b |-> rd_b],
          WinProbabilityResult(rating_a, rd_a, rating_b, rd_b))

CallConfidenceInterval(t, rating, rd, confidence) ==
    Query(t, [rating |-> rating, rd |-> rd, op |-> "confidence_interval",
              confidence |-> confidence],
          ConfidenceInterval(rating, rd, confidence))

CallGetConfidence(t, rd) ==
    Query(t, [rd |-> rd, op |-> "get_confidence"], GetConfidence(rd))

(***************************************************************************)
(* Inputs.                                                                 *)
(***************************************************************************)
\* tau values handed to the constructor: the two ends of the accepted
\* range, a value inside it, and the nearest rejected values.
TauInputs == {Dec(19, 2), Dec(2, 1), Dec(5, 1), Dec(15, 1), Dec(151, 2)}

DefaultVolatility == Dec(6, 2)

Half == Dec(5, 1)

\* Stored subject states an update starts from: deviations from 0 to above
\* the ceiling, and states a caller must not store (negative deviation,
\* volatility 0 or below).
Subjects ==
    {Subject(FromInt(1500), FromInt(350), DefaultVolatility),
     Subject(FromInt(1500), FromInt(200), DefaultVolatility),
     Subject(FromInt(1500), FromInt(30), DefaultVolatility),
     Subject(FromInt(1500), Zero, DefaultVolatility),
     Subject(FromInt(1500), FromInt(400), DefaultVolatility),
     Subject(FromInt(1500), FromInt(-100), DefaultVolatility),
     Subject(FromInt(1500), FromInt(350), Zero),
     Subject(FromInt(1500), FromInt(350), Neg(DefaultVolatility))}

StrongOpponent == Opponent(FromInt(1700), FromInt(50), One)

\* An opponent far above the subject and as uncertain as a new player: the
\* game says little, and the subject's deviation hardly shrinks.
DistantOpponent == Opponent(FromInt(2500), FromInt(350), Zero)

PartialWin == Opponent(FromInt(1800), FromInt(150), Dec(75, 2))

\* The opponent lists and days_since_last of a call for a subject in state s.
Games(s) ==
    {<<<<>>, 0>>,
     <<<<>>, 30>>,
     <<<<StrongOpponent>>, 0>>,
     <<<<StrongOpponent>>, 30>>,
     <<<<Opponent(s.rating, s.rd, Half)>>, 0>>,
     <<<<PartialWin>>, 0>>,
     <<<<DistantOpponent>>, 0>>,
     <<<<Opponent(FromInt(1400), FromInt(30), One),
         Opponent(FromInt(1550), FromInt(100), Zero)>>, 0>>,
     <<<<Opponent(FromInt(1700), FromInt(-50), One)>>, 0>>,
     <<<<Opponent(FromInt(1700), FromInt(50), Dec(15, 1))>>, 0>>}

\* update_rating calls followed per subject.
MaxUpdates == 1

(***************************************************************************)
(* One caller.                                                             *)
(***************************************************************************)
Init ==
    /\ engine = [tau |-> Zero, status |-> "none", given |-> Zero]
    /\ subject \in [Threads -> Subjects]
    /\ subject[2] = subject[1]
    /\ updates = [t \in Threads |-> 0]
    /\ pc = [t \in Threads |-> "idle"]
    /\ args = [t \in Threads |-> NoArgs]
    /\ frame = [t \in Threads |-> NoFrame]
    /\ result = [t \in Threads |-> NoResult]
    /\ NoApp

Step(t) ==
    \/ /\ updates[t] < MaxUpdates
       /\ \E g \in Games(subject[t]) : CallUpdate(t, g[1], g[2])
    \/ BracketStep(t)
    \/ IllinoisTest(t)
    \/ IllinoisStep(t)
    \/ Finish(t)
    \/ Complete(t)

Next ==
    \/ \E tau \in TauInputs : Construct(tau)
    \/ Step(1)

Spec == Init /\ [][Next]_vars

(***************************************************************************)
(* One caller that feeds each result back as the next input.               *)
(***************************************************************************)
ChainTaus == {Dec(5, 1), Dec(19, 2)}

ChainSubjects ==
    {Subject(FromInt(1500), FromInt(350), DefaultVolatility),
     Subject(FromInt(1500), Zero, DefaultVolatility)}

ChainGames(s) ==
    {<<<<>>, 30>>,
     <<<<StrongOpponent>>, 0>>,
     <<<<Opponent(s.rating, s.rd, Half)>>, 0>>,
     <<<<Opponent(FromInt(1400), FromInt(30), Zero)>>, 30>>}

\* Updates followed in a chain.
MaxChain == 3

ChainInit ==
    /\ engine = [tau |-> Zero, status |-> "none", given |-> Zero]
    /\ subject \in [Threads -> ChainSubjects]
    /\ subject[2] = subject[1]
    /\ updates = [t \in Threads |-> 0]
    /\ pc = [t \in Threads |-> "idle"]
    /\ args = [t \in Threads |-> NoArgs]
    /\ frame = [t \in Threads |-> NoFrame]
    /\ result = [t \in Threads |-> NoResult]
    /\ NoApp

ChainStep(t) ==
    \/ /\ updates[t] < MaxChain
       /\ \E g \in ChainGames(subject[t]) : CallUpdate(t, g[1], g[2])
    \/ BracketStep(t)
    \/ IllinoisTest(t)
    \/ IllinoisStep(t)
    \/ Finish(t)
    \/ Complete(t)

ChainNext ==
    \/ \E tau \in ChainTaus : Construct(tau)
    \/ ChainStep(1)

ChainSpec == ChainInit /\ [][ChainNext]_vars

(***************************************************************************)
(* A call in progress is never abandoned: the interpreter goes on to the   *)
(* call's next position.  Every step of a call changes its position.       *)
(***************************************************************************)
Positions ==
    {"idle", "bracket", "bracket_body", "illinois", "illinois_body", "returned",
     "raised"}

Move(t) ==
    /\ pc[t] # "idle"
    /\ \E p \in Positions \ {pc[t]} : pc' = [pc EXCEPT ![t] = p]

\* A subject with a large volatility and the partial win it is updated with.
VolatileSubject == Subject(FromInt(1225), FromInt(60), Dec(77, 2))

FairTaus == {Dec(5, 1), Dec(12, 1), Dec(151, 2)}

FairGames(s) ==
    {<<<<>>, 0>>,
     <<<<StrongOpponent>>, 0>>,
     <<<<PartialWin>>, 0>>,
     <<<<Opponent(s.rating, s.rd, Half)>>, 0>>}

FairInit ==
    /\ engine = [tau |-> Zero, status |-> "none", given |-> Zero]
    /\ subject \in [Threads -> {VolatileSubject,
                                Subject(FromInt(1500), FromInt(350),
                                        DefaultVolatility)}]
    /\ subject[2] = subject[1]
    /\ updates = [t \in Threads |-> 0]
    /\ pc = [t \in Threads |-> "idle"]
    /\ args = [t \in Threads |-> NoArgs]
    /\ frame = [t \in Threads |-> NoFrame]
    /\ result = [t \in Threads |-> NoResult]
    /\ NoApp

FairStep(t) ==
    \/ /\ updates[t] < MaxUpdates
       /\ \E g \in FairGames(subject[t]) : CallUpdate(t, g[1], g[2])
    \/ BracketStep(t)
    \/ IllinoisTest(t)
    \/ IllinoisStep(t)
    \/ Finish(t)
    \/ Complete(t)

FairNext ==
    \/ \E tau \in FairTaus : Construct(tau)
    \/ FairStep(1)

FairSpec == FairInit /\ [][FairNext]_vars /\ WF_pc(Move(1))

(***************************************************************************)
(* One caller, opponents far from the subject: a game whose result was    *)
(* certain beforehand, where E rounds to 1 and the sum of _v is 0.         *)
(***************************************************************************)
GapTaus == {Dec(5, 1), Dec(12, 1)}

GapSubjects ==
    {Subject(FromInt(1500), FromInt(350), DefaultVolatility),
     Subject(FromInt(758), FromInt(60), DefaultVolatility),
     Subject(FromInt(9000), FromInt(50), DefaultVolatility)}

\* An opponent rated gap points away from the subject in state s.
OpponentAtGap(s, gap, outcome) ==
    Opponent(FAdd(s.rating, FromInt(gap)), FromInt(50), outcome)

\* The opponent lists and days_since_last of a call for a subject in state
\* s: opponents 8000 above and 7500 below, an opponent so far above that
\* math.exp overflows, and ordinary games.
GapGames(s) ==
    {<<<<OpponentAtGap(s, 8000, Zero)>>, 0>>,
     <<<<OpponentAtGap(s, -7500, One)>>, 0>>,
     <<<<OpponentAtGap(s, -7500, Half)>>, 0>>,
     <<<<OpponentAtGap(s, -7500, Zero)>>, 0>>,
     <<<<OpponentAtGap(s, -7500, One), OpponentAtGap(s, -8000, Zero)>>, 0>>,
     <<<<Opponent(FAdd(s.rating, FromInt(130000)), Zero, Zero)>>, 0>>,
     <<<<StrongOpponent>>, 0>>,
     <<<<Opponent(s.rating, s.rd, Half)>>, 0>>,
     <<<<OpponentAtGap(s, 200, Zero)>>, 0>>,
     <<<<OpponentAtGap(s, -200, One)>>, 0>>}

GapInit ==
    /\ engine = [tau |-> Zero, status |-> "none", given |-> Zero]
    /\ subject \in [Threads -> GapSubjects]
    /\ subject[2] = subject[1]
    /\ updates = [t \in Threads |-> 0]
    /\ pc = [t \in Threads |-> "idle"]
    /\ args = [t \in Threads |-> NoArgs]
    /\ frame = [t \in Threads |-> NoFrame]
    /\ result = [t \in Threads |-> NoResult]
    /\ NoApp

GapStep(t) ==
    \/ /\ updates[t] < MaxUpdates
       /\ \E g \in GapGames(subject[t]) : CallUpdate(t, g[1], g[2])
    \/ BracketStep(t)
    \/ IllinoisTest(t)
    \/ IllinoisStep(t)
    \/ Finish(t)
    \/ Complete(t)

GapNext ==
    \/ \E tau \in GapTaus : Construct(tau)
    \/ GapStep(1)

GapSpec == GapInit /\ [][GapNext]_vars /\ WF_pc(Move(1))

(***************************************************************************)
(* Two callers on one shared instance, each with a subject of its own.     *)
(***************************************************************************)
SharedTaus == {Dec(5, 1), Dec(151, 2)}

SharedSubjects ==
    <<Subject(FromInt(1500), FromInt(200), DefaultVolatility),
      Subject(FromInt(1400), FromInt(30), DefaultVolatility)>>

SharedGames(s) ==
    {<<<<>>, 30>>,
     <<<<StrongOpponent>>, 0>>,
     <<<<Opponent(s.rating, s.rd, Half)>>, 0>>}

\* Calls followed per caller on the shared instance.
MaxSharedCalls == 1

SharedInit ==
    /\ engine = [tau |-> Zero, status |-> "none", given |-> Zero]
    /\ subject = [t \in Threads |-> SharedSubjects[t]]
    /\ updates = [t \in Threads |-> 0]
    /\ pc = [t \in Threads |-> "idle"]
    /\ args = [t \in Threads |-> NoArgs]
    /\ frame = [t \in Threads |-> NoFrame]
    /\ result = [t \in Threads |-> NoResult]
    /\ NoApp

SharedStep(t) ==
    \/ /\ updates[t] < MaxSharedCalls
       /\ \E g \in SharedGames(subject[t]) : CallUpdate(t, g[1], g[2])
    \/ /\ updates[t] < MaxSharedCalls
       /\ CallExpectedRatingChange(t, StrongOpponent)
    \/ CallWinProbability(t, subject[t].rating, subject[t].rd,
                          StrongOpponent.rating, StrongOpponent.rating_deviation)
    \/ CallConfidenceInterval(t, subject[t].rating, subject[t].rd, Dec(95, 2))
    \/ CallGetConfidence(t, subject[t].rd)
    \/ BracketStep(t)
    \/ IllinoisTest(t)
    \/ IllinoisStep(t)
    \/ Finish(t)
    \/ Complete(t)

SharedNext ==
    \/ \E tau \in SharedTaus : Construct(tau)
    \/ \E t \in Threads : SharedStep(t)

SharedSpec == SharedInit /\ [][SharedNext]_vars

(***************************************************************************)
(* One caller of the read-only methods.                                    *)
(***************************************************************************)
QueryTaus == {Dec(5, 1)}

\* Ratings handed to win_probability: two ordinary ones, one far enough
\* from them for the expected score to round to 0 or 1, and one beyond the
\* range of math.exp.
QueryRatings == {FromInt(1500), FromInt(1700), FromInt(9000), FromInt(130000)}

QueryDeviations == {Zero, FromInt(50), FromInt(350)}

\* Ratings and deviations handed to confidence_interval.
IntervalRatings == {FromInt(1500), FromInt(1687), Dec(15005, 1)}

IntervalDeviations ==
    {Zero, FromInt(50), FromInt(150), FromInt(266), FromInt(350), Dec(9765, 2)}

\* The three levels of z_scores, a level next to one of them and a level
\* far from all.
ConfidenceLevels == {Dec(90, 2), Dec(95, 2), Dec(99, 2), Dec(951, 3), Half}

\* Deviations handed to get_confidence: each threshold, its neighbours on
\* both sides, the ends of the conventional range and values outside it.
LabelDeviations ==
    {FromInt(-5), Zero, FromInt(99), Dec(99999, 3), FromInt(100),
     Dec(100001, 3), FromInt(199), FromInt(200), FromInt(299), Dec(299999, 3),
     FromInt(300), FromInt(350), FromInt(400), Inf, NaN}

QueryInit == SharedInit

QueryStep(t) ==
    \/ \E rating_a \in QueryRatings, rd_a \in QueryDeviations,
          rating_b \in QueryRatings, rd_b \in QueryDeviations :
          CallWinProbability(t, rating_a, rd_a, rating_b, rd_b)
    \/ \E rating \in IntervalRatings, rd \in IntervalDeviations,
          confidence \in ConfidenceLevels :
          CallConfidenceInterval(t, rating, rd, confidence)
    \/ \E rd \in LabelDeviations : CallGetConfidence(t, rd)

QueryNext ==
    \/ \E tau \in QueryTaus : Construct(tau)
    \/ QueryStep(1)

QuerySpec == QueryInit /\ [][QueryNext]_vars

(***************************************************************************)
(* SecurityUtils: str values are sequences of one-character strings.       *)
(***************************************************************************)
None == [kind |-> "None"]

Str(chars) == [kind |-> "str", chars |-> chars]

BoolResult(b) == [kind |-> "bool", value |-> b]

\* "not x" for x a str or None: None and "" are falsy.
Falsy(x) == x.kind = "None" \/ x.chars = <<>>

UPPER ==
    {"A", "B", "C", "D", "E", "F", "G", "H", "I", "J", "K", "L", "M",
     "N", "O", "P", "Q", "R", "S", "T", "U", "V", "W", "X", "Y", "Z"}

LOWER ==
    {"a", "b", "c", "d", "e", "f", "g", "h", "i", "j", "k", "l", "m",
     "n", "o", "p", "q", "r", "s", "t", "u", "v", "w", "x", "y", "z"}

DIGITS == <<"0", "1", "2", "3", "4", "5", "6", "7", "8", "9">>

\* The character class [A-Za-z0-9_-].
VideoIdChars == UPPER \cup LOWER \cup {DIGITS[i] : i \in 1..10} \cup {"_", "-"}

\* The characters str.strip() removes.
Whitespace == {" ", "\t", "\n", "\r", "\f"}

AllVideoIdChars(chars) == \A i \in 1..Len(chars) : chars[i] \in VideoIdChars

\* The pattern with "\Z" for its end: exactly 11 characters of the class.
PatternMatchesWhole(chars) == Len(chars) = 11 /\ AllVideoIdChars(chars)

\* YOUTUBE_VIDEO_ID_PATTERN.match(s) for ^[A-Za-z0-9_-]{11}$: "$" matches at
\* the end of s and also just before a newline that ends s.
PatternMatches(chars) ==
    \/ Len(chars) = 11 /\ AllVideoIdChars(chars)
    \/ /\ Len(chars) = 12
       /\ chars[12] = "\n"
       /\ AllVideoIdChars(SubSeq(chars, 1, 11))

ValidateYoutubeVideoId(video_id) ==
    IF Falsy(video_id) THEN FALSE ELSE PatternMatches(video_id.chars)

RECURSIVE LStrip(_)
LStrip(chars) ==
    IF chars # <<>> /\ Head(chars) \in Whitespace
    THEN LStrip(Tail(chars))
    ELSE chars

RECURSIVE RStrip(_)
RStrip(chars) ==
    IF chars # <<>> /\ chars[Len(chars)] \in Whitespace
    THEN RStrip(SubSeq(chars, 1, Len(chars) - 1))
    ELSE chars

\* s.strip().
Strip(chars) == RStrip(LStrip(chars))

\* "if validate_youtube_video_id(video_id): return video_id" and
\* "return None", for the stripped id.
SanitizedId(stripped) ==
    IF ValidateYoutubeVideoId(stripped) THEN stripped ELSE None

SanitizeYoutubeVideoId(video_id) ==
    IF Falsy(video_id) THEN None ELSE SanitizedId(Str(Strip(video_id.chars)))

\* str(n) for an int n >= 0.
RECURSIVE DecimalDigits(_)
DecimalDigits(n) ==
    IF n < 10 THEN <<DIGITS[n + 1]>>
    ELSE DecimalDigits(n \div 10) \o <<DIGITS[(n % 10) + 1]>>

\* The literal text of the iframe f-string around its four fields.
IFRAME_UP_TO_WIDTH ==
    <<"<", "i", "f", "r", "a", "m", "e", " ", "\n", " ", " ", " ", " ",
      " ", " ", " ", " ", " ", " ", " ", " ", "w", "i", "d", "t", "h", "=",
      "\"">>

IFRAME_UP_TO_HEIGHT ==
    <<"\"", " ", "\n", " ", " ", " ", " ", " ", " ", " ", " ", " ", " ",
      " ", " ", "h", "e", "i", "g", "h", "t", "=", "\"">>

IFRAME_UP_TO_ID ==
    <<"\"", " ", "\n", " ", " ", " ", " ", " ", " ", " ", " ", " ", " ",
      " ", " ", "s", "r", "c", "=", "\"", "h", "t", "t", "p", "s", ":",
      "/", "/", "w", "w", "w", ".", "y", "o", "u", "t", "u", "b", "e", ".",
      "c", "o", "m", "/", "e", "m", "b", "e", "d", "/">>

IFRAME_UP_TO_AUTOPLAY ==
    <<"?", "a", "u", "t", "o", "p", "l", "a", "y", "=">>

IFRAME_REST ==
    <<"\"", " ", "\n", " ", " ", " ", " ", " ", " ", " ", " ", " ", " ",
      " ", " ", "f", "r", "a", "m", "e", "b", "o", "r", "d", "e", "r", "=",
      "\"", "0", "\"", " ", "\n", " ", " ", " ", " ", " ", " ", " ", " ",
      " ", " ", " ", " ", "a", "l", "l", "o", "w", "=", "\"", "a", "c",
      "c", "e", "l", "e", "r", "o", "m", "e", "t", "e", "r", ";", " ", "a",
      "u", "t", "o", "p", "l", "a", "y", ";", " ", "c", "l", "i", "p", "b",
      "o", "a", "r", "d", "-", "w", "r", "i", "t", "e", ";", " ", "e", "n",
      "c", "r", "y", "p", "t", "e", "d", "-", "m", "e", "d", "i", "a", ";",
      " ", "g", "y", "r", "o", "s", "c", "o", "p", "e", ";", " ", "p", "i",
      "c", "t", "u", "r", "e", "-", "i", "n", "-", "p", "i", "c", "t", "u",
      "r", "e", "\"", " ", "\n", " ", " ", " ", " ", " ", " ", " ", " ",
      " ", " ", " ", " ", "a", "l", "l", "o", "w", "f", "u", "l", "l", "s",
      "c", "r", "e", "e", "n", ">", "\n", " ", " ", " ", " ", " ", " ",
      " ", " ", "<", "/", "i", "f", "r", "a", "m", "e", ">">>

\* "1" if autoplay else "0".
AutoplayParam(autoplay) == IF autoplay THEN <<"1">> ELSE <<"0">>

\* The f-string of create_safe_youtube_embed for a validated id.
Iframe(safe_id, width, height, autoplay) ==
    Str(IFRAME_UP_TO_WIDTH \o width.chars \o IFRAME_UP_TO_HEIGHT
        \o DecimalDigits(height) \o IFRAME_UP_TO_ID \o safe_id.chars
        \o IFRAME_UP_TO_AUTOPLAY \o AutoplayParam(autoplay) \o IFRAME_REST)

\* "if not safe_id: return None" and the rest of create_safe_youtube_embed.
EmbedOf(safe_id, width, height, autoplay) ==
    IF Falsy(safe_id) THEN None ELSE Iframe(safe_id, width, height, autoplay)

CreateSafeYoutubeEmbed(video_id, width, height, autoplay) ==
    EmbedOf(SanitizeYoutubeVideoId(video_id), width, height, autoplay)

\* s[:n]: the first n characters, or all but the last -n for a negative n.
Slice(chars, n) ==
    IF n >= 0
    THEN SubSeq(chars, 1, IF n < Len(chars) THEN n ELSE Len(chars))
    ELSE SubSeq(chars, 1, Len(chars) + n)

\* sanitize_search_query with the truncation done before the strip.
TruncateThenStrip(chars, max_length) == Str(Strip(Slice(chars, max_length)))

\* "query = str(query).strip()" and "query = query[:max_length]".
StripThenTruncate(chars, max_length) == Str(Slice(Strip(chars), max_length))

SanitizeSearchQuery(query, max_length) ==
    IF Falsy(query) THEN Str(<<>>) ELSE StripThenTruncate(query.chars, max_length)

\* A static method called by t: it runs to its return in one step and reads
\* no calculator.
StaticCall(t, call, value) ==
    /\ pc[t] = "idle"
    /\ args' = [args EXCEPT ![t] = call]
    /\ result' = [result EXCEPT ![t] = value]
    /\ UNCHANGED <<engine, subject, updates, pc, frame, app>>

CallValidateYoutubeVideoId(t, video_id) ==
    StaticCall(t, [op |-> "validate_youtube_video_id", video_id |-> video_id],
               BoolResult(ValidateYoutubeVideoId(video_id)))

CallSanitizeYoutubeVideoId(t, video_id) ==
    StaticCall(t, [op |-> "sanitize_youtube_video_id", video_id |-> video_id],
               SanitizeYoutubeVideoId(video_id))

CallCreateSafeYoutubeEmbed(t, video_id, width, height, autoplay) ==
    StaticCall(t, [op |-> "create_safe_youtube_embed", video_id |-> video_id,
                   autoplay |-> autoplay, width |-> width, height |-> height],
               CreateSafeYoutubeEmbed(video_id, width, height, autoplay))

CallSanitizeSearchQuery(t, query, max_length) ==
    StaticCall(t, [op |-> "sanitize_search_query", max_length |-> max_length,
                   query |-> query],
               SanitizeSearchQuery(query, max_length))

(***************************************************************************)
(* One caller of SecurityUtils.                                            *)
(***************************************************************************)
\* Values handed in as video_id: None, the empty string, valid ids, ids of
\* the wrong length, ids with other characters, and valid ids with
\* whitespace before, after or inside them.
VideoIds ==
    {None,
     Str(<<>>),
     Str(<<"d", "Q", "w", "4", "w", "9", "W", "g", "X", "c", "Q">>),
     Str(<<"0", "1", "2", "3", "4", "5", "6", "7", "8", "9", "_">>),
     Str(<<"a", "B", "c", "D", "e", "-", "G", "h", "i", "J", "k">>),
     Str(<<"s", "h", "o", "r", "t">>),
     Str(<<"1", "2", "3", "4", "5", "6", "7", "8", "9", "0">>),
     Str(<<"1", "2", "3", "4", "5", "6", "7", "8", "9", "0", "1", "2">>),
     Str(<<"<", "s", "c", "r", "i", "p", "t", ">", "1", "2", "3">>),
     Str(<<"h", "e", "l", "l", "o", " ", "w", "o", "r", "l", "d">>),
     Str(<<" ", " ", "d", "Q", "w", "4", "w", "9", "W", "g", "X", "c", "Q">>),
     Str(<<"d", "Q", "w", "4", "w", "9", "W", "g", "X", "c", "Q", " ", " ">>),
     Str(<<"d", "Q", "w", "4", "w", "9", "W", "g", "X", "c", "Q", "\n">>),
     Str(<<"d", "Q", "w", "4", "w", "\n", "9", "W", "g", "X", "c">>),
     Str(<<"\"", ">", "<", "s", "c", "r", "i", "p", "t", ">", "a", "l",
           "e", "r", "t", "(", "\"", "x", "s", "s", "\"", ")", "<", "/",
           "s", "c", "r", "i", "p", "t", ">", "<", "\"">>)}

\* CSS widths handed in, one of them closing the attribute and the tag.
EmbedWidths ==
    {Str(<<"1", "0", "0", "%">>),
     Str(<<"5", "0", "%">>),
     Str(<<"\"", ">", "<", "s", "c", "r", "i", "p", "t", ">", "a", "l",
           "e", "r", "t", "(", "1", ")", "<", "/", "s", "c", "r", "i", "p",
           "t", ">">>)}

EmbedHeights == {400, 300}

\* Search queries: None, the empty string, and text with whitespace around
\* and inside it.
SearchQueries ==
    {None,
     Str(<<>>),
     Str(<<"T", "W", "I", "C", "E">>),
     Str(<<" ", " ", "T", "W", "I", "C", "E", " ", " ">>),
     Str(<<"a", "b", " ", "c", "d">>),
     Str(<<"a", "b", " ", " ", "c", "d">>),
     Str(<<"\t", "T", "W", "I", "C", "E", "\n">>),
     Str(<<" ", " ", " ">>),
     Str(<<"x", "x", "x", "x", "x", "x", "x", "x", "x", "x">>)}

MaxLengths == {-1, 0, 1, 2, 3, 5, 200}

SecurityInit == QueryInit

SecurityStep(t) ==
    \/ \E video_id \in VideoIds : CallValidateYoutubeVideoId(t, video_id)
    \/ \E video_id \in VideoIds : CallSanitizeYoutubeVideoId(t, video_id)
    \/ \E video_id \in VideoIds, width \in EmbedWidths,
          height \in EmbedHeights, autoplay \in BOOLEAN :
          CallCreateSafeYoutubeEmbed(t, video_id, width, height, autoplay)
    \/ \E query \in SearchQueries, max_length \in MaxLengths :
          CallSanitizeSearchQuery(t, query, max_length)

SecurityNext == SecurityStep(1)

SecuritySpec == SecurityInit /\ [][SecurityNext]_vars

(***************************************************************************)
(* Properties.                                                             *)
(***************************************************************************)
\* Caller t holds what a call of update_rating returned.
Returned(t) == pc[t] = "returned" /\ args[t].op = "update_rating"

ValidOpponent(opp) ==
    /\ FGe(opp.rating_deviation, Zero)
    /\ FGe(opp.outcome, Zero)
    /\ FLe(opp.outcome, One)

\* The preconditions of update: deviation >= 0, volatility > 0, every
\* opponent's deviation >= 0 and outcome in [0, 1], days >= 0.
ValidCall(call) ==
    /\ FGe(call.rd, Zero)
    /\ FGt(call.volatility, Zero)
    /\ \A j \in 1..Len(call.opponents) : ValidOpponent(call.opponents[j])
    /\ call.days >= 0

\* C1: the constructor succeeds exactly when 0.2 <= tau <= 1.5, the
\* instance it builds holds the tau it was given, and a rejected tau leaves
\* no instance holding it.
C1_TauAcceptedExactlyInRange ==
    engine.status # "none" =>
        /\ engine.status = "ready"
              <=> (FLe(Dec(2, 1), engine.given) /\ FLe(engine.given, Dec(15, 1)))
        /\ engine.status = "ready" => engine.tau = engine.given
        /\ engine.status = "failed" => engine.tau # engine.given

\* The upper end of the range, 1.5, was accepted.
C1_Witness == engine.status = "ready" /\ engine.given = Dec(15, 1)

\* C2: update_rating with no opponents returns the input rating and the
\* input volatility exactly, and with days = 0 the input deviation too.
C2_NoOpponentsKeepsRatingAndVolatility ==
    \A t \in Threads :
        (Returned(t) /\ Len(args[t].opponents) = 0) =>
            /\ result[t].rating = args[t].rating
            /\ result[t].volatility = args[t].volatility
            /\ args[t].days = 0 => result[t].rating_deviation = args[t].rd

\* A call with no opponents returned, its deviation changed by the decay.
C2_Witness ==
    /\ Returned(1)
    /\ Len(args[1].opponents) = 0
    /\ args[1].days > 0
    /\ result[1].rating_deviation # args[1].rd

\* C3 as stated: with no opponents and days > 0 the returned deviation is
\* at least the input deviation and at most 350, for every input deviation
\* d >= 0.
C3_DecayNeverDecreases ==
    \A t \in Threads :
        (/\ Returned(t)
         /\ Len(args[t].opponents) = 0
         /\ args[t].days > 0
         /\ FGe(args[t].rd, Zero)) =>
            /\ FGe(result[t].rating_deviation, args[t].rd)
            /\ FLe(result[t].rating_deviation, MAX_RD)

\* C3, amended: with no opponents and days > 0 the returned deviation is at
\* most 350 for every input deviation d >= 0, and at least d when
\* 0 <= d <= 350.
C3_DecayWithinCeiling ==
    \A t \in Threads :
        (/\ Returned(t)
         /\ Len(args[t].opponents) = 0
         /\ args[t].days > 0
         /\ FGe(args[t].rd, Zero)) =>
            /\ FLe(result[t].rating_deviation, MAX_RD)
            /\ FLe(args[t].rd, MAX_RD)
                  => FGe(result[t].rating_deviation, args[t].rd)

\* Inactivity raised a deviation below the ceiling, and another call's
\* decay was stopped at the ceiling.
C3_Witness ==
    /\ Returned(1)
    /\ Len(args[1].opponents) = 0
    /\ args[1].days > 0
    /\ FGe(args[1].rd, Zero)
    /\ FGt(result[1].rating_deviation, args[1].rd)
    /\ FLt(result[1].rating_deviation, MAX_RD)

\* "phi_star * SCALE" for the input deviation rd and the new volatility: the
\* deviation before this period's games are taken in.
InflatedDeviation(rd, new_sigma) ==
    FMul(Sqrt(FAdd(Sq(FDiv(rd, SCALE)), Sq(new_sigma))), SCALE)

\* A valid call with days = 0 and at least one opponent returned.
ComparisonReturned(t) ==
    /\ Returned(t)
    /\ args[t].days = 0
    /\ Len(args[t].opponents) >= 1
    /\ ValidCall(args[t])

\* C4 as stated: a valid call with days = 0 and at least one opponent
\* returns a deviation less than or equal to the input deviation.
C4_ComparisonsNeverIncrease ==
    \A t \in Threads :
        ComparisonReturned(t) => FLe(result[t].rating_deviation, args[t].rd)

\* C4, amended: a valid call with days = 0 and at least one opponent returns
\* a deviation of at most sqrt(d^2 + (173.7178 * sigma')^2), the input
\* deviation d inflated by the returned volatility sigma'.
C4_ComparisonsBoundedByInflation ==
    \A t \in Threads :
        ComparisonReturned(t) =>
            FLe(result[t].rating_deviation,
                InflatedDeviation(args[t].rd, result[t].volatility))

\* A comparison returned a deviation above the input deviation.
C4_Witness ==
    /\ ComparisonReturned(1)
    /\ FGt(result[1].rating_deviation, args[1].rd)

\* C5: every valid call returns a deviation >= 0, with or without
\* opponents, also when its input is the result of an earlier update.
C5_DeviationNeverNegative ==
    \A t \in Threads :
        (Returned(t) /\ ValidCall(args[t])) =>
            FGe(result[t].rating_deviation, Zero)

\* A full update of a state that two earlier updates led to has returned.
C5_Witness ==
    /\ Returned(1)
    /\ ValidCall(args[1])
    /\ updates[1] = 2
    /\ Len(args[1].opponents) >= 1
    /\ FGe(result[1].rating_deviation, Zero)

\* C6: the volatility solve of a valid call never hangs: a call that has
\* entered the bracket search or the Illinois loop leaves it, by returning
\* or by raising.
C6_SolveTerminates ==
    \A t \in Threads :
        (/\ pc[t] \in {"bracket", "bracket_body", "illinois", "illinois_body"}
         /\ ValidCall(args[t]))
            ~> (pc[t] \in {"returned", "raised"})

\* C7: update_rating rejects every invalid input: no call with a negative
\* subject or opponent deviation, a volatility <= 0 or an outcome outside
\* [0, 1] returns a rating triple.
C7_InvalidInputRejected ==
    \A t \in Threads : Returned(t) => ValidCall(args[t])

\* Iterations of the Illinois loop followed when a call is run on its own.
AloneFuel == 40

RECURSIVE AloneIllinois(_, _, _, _, _)
\* The Illinois loop of one call run to its end with nothing else going on.
AloneIllinois(call, fr, st, tau, fuel) ==
    IF ~LoopGuard(st)
    THEN ResultFor(call, PostUpdate(fr.mu, fr.phi, fr.v, SolverResult(st),
                                    OpponentsG2(call.opponents)))
    ELSE IF fuel = 0 THEN Raised("unfinished")
    ELSE IF InterpolationRaises(st) THEN Raised("ZeroDivisionError")
    ELSE CHOOSE r \in
            {AloneIllinois(call, fr, next, tau, fuel - 1) :
                next \in {IllinoisBody(st, fr.delta, fr.phi, fr.v, fr.a,
                                       tau)}} : TRUE

RECURSIVE AloneBracket(_, _, _, _)
AloneBracket(call, fr, k, tau) ==
    IF BracketGuard(k, fr.delta, fr.phi, fr.v, fr.a, tau)
    THEN IF k < MaxBracket THEN AloneBracket(call, fr, k + 1, tau)
         ELSE Raised("unfinished")
    ELSE CHOOSE r \in
            {AloneIllinois(call, fr, st, tau, AloneFuel) :
                st \in {SolverInit(fr.a, BracketPoint(fr.a, k, tau),
                                   fr.delta, fr.phi, fr.v, fr.a, tau)}} : TRUE

AloneFrom(call, e, tau) ==
    IF e.pc \in {"returned", "raised"} THEN ResultFor(call, e.result)
    ELSE IF e.pc = "bracket" THEN AloneBracket(call, e.frame, e.frame.k, tau)
    ELSE CHOOSE r \in
            {AloneIllinois(call, e.frame, st, tau, AloneFuel) :
                st \in {Solver(e.frame)}} : TRUE

\* What update_rating or expected_rating_change returns or raises for call
\* when no other call runs on the instance.
RunAlone(call, tau) ==
    CHOOSE r \in {AloneFrom(call, e, tau) : e \in {UpdateEntry(call, tau)}} :
        TRUE

\* What a read-only method returns for call.
QueryValue(call) ==
    IF call.op = "win_probability"
    THEN WinProbabilityResult(call.rating_a, call.rd_a,
                              call.rating_b, call.rd_b)
    ELSE IF call.op = "confidence_interval"
    THEN ConfidenceInterval(call.rating, call.rd, call.confidence)
    ELSE GetConfidence(call.rd)

\* The result caller t holds is the result of its call run alone.
SameAsAlone(t) ==
    IF args[t].op \in {"update_rating", "expected_rating_change"}
    THEN pc[t] \in {"returned", "raised"}
            => result[t] = RunAlone(args[t], engine.tau)
    ELSE args[t].op # "none" => result[t] = QueryValue(args[t])

\* C8: no method call changes tau or any other field of the calculator,
\* and under every interleaving of two callers on one shared instance each
\* call returns what it returns when run alone.
C8_SharedInstanceIsSafe ==
    /\ [](\A t \in Threads : SameAsAlone(t))
    /\ [][engine.status = "ready" => engine' = engine]_vars

\* Both callers are inside the volatility solve at once, for different
\* subjects.
C8_Witness ==
    /\ pc[1] \in {"illinois", "illinois_body"}
    /\ pc[2] \in {"illinois", "illinois_body"}
    /\ args[1] # args[2]

RatingTolerance == Dec(1, 4)

\* A valid draw against one opponent with the subject's own rating and
\* deviation, days = 0, has returned.
DrawReturned(t) ==
    /\ ComparisonReturned(t)
    /\ args[t].opponents = <<Opponent(args[t].rating, args[t].rd, Dec(5, 1))>>

RatingUnchanged(t) ==
    FLe(FAbs(FSub(result[t].rating, args[t].rating)), RatingTolerance)

\* C9 as stated: a draw against an identical opponent returns the input
\* rating (within tolerance) and a deviation less than or equal to the input
\* deviation, for every deviation >= 0 and volatility > 0.
C9_DrawIsFixedPoint ==
    \A t \in Threads :
        DrawReturned(t) =>
            /\ RatingUnchanged(t)
            /\ FLe(result[t].rating_deviation, args[t].rd)

\* C9, amended: a draw against an identical opponent returns the input
\* rating (within tolerance) and a deviation of at most
\* sqrt(d^2 + (173.7178 * sigma')^2) for the input deviation d and the
\* returned volatility sigma'.
C9_DrawKeepsRating ==
    \A t \in Threads :
        DrawReturned(t) =>
            /\ RatingUnchanged(t)
            /\ FLe(result[t].rating_deviation,
                   InflatedDeviation(args[t].rd, result[t].volatility))

\* A draw against an identical opponent returned a larger deviation.
C9_Witness ==
    /\ DrawReturned(1)
    /\ FGt(result[1].rating_deviation, args[1].rd)

\* The canonical call has returned: 1500 / 350 / 0.06 beats 1700 / 50 with
\* tau = 0.5.
CanonicalReturned(t) ==
    /\ Returned(t)
    /\ engine.tau = Dec(5, 1)
    /\ args[t].rating = FromInt(1500)
    /\ args[t].rd = FromInt(350)
    /\ args[t].volatility = Dec(6, 2)
    /\ args[t].opponents = <<Opponent(FromInt(1700), FromInt(50), One)>>
    /\ args[t].days = 0

Within(x, lo, hi) == FLe(lo, x) /\ FLe(x, hi)

\* The returned volatility is not 0.06 and within 0.0001 of it.
SmallAdjustment(t) ==
    /\ result[t].volatility # args[t].volatility
    /\ FLe(FAbs(FSub(result[t].volatility, args[t].volatility)), Dec(1, 4))

\* C10 as stated: the canonical call raises the rating by between 50 and
\* 70, returns a deviation between 120 and 180 and adjusts the volatility
\* slightly.
C10_CanonicalAsStated ==
    \A t \in Threads :
        CanonicalReturned(t) =>
            /\ Within(FSub(result[t].rating, args[t].rating),
                      FromInt(50), FromInt(70))
            /\ Within(result[t].rating_deviation, FromInt(120), FromInt(180))
            /\ SmallAdjustment(t)

\* C10, amended: the canonical call raises the rating by 305.30 (to
\* 1805.30), returns a deviation of 266.32 (below 350) and adjusts the
\* volatility slightly (0.0600011).
C10_CanonicalGolden ==
    \A t \in Threads :
        CanonicalReturned(t) =>
            /\ Within(FSub(result[t].rating, args[t].rating),
                      Dec(30529, 2), Dec(30531, 2))
            /\ Within(result[t].rating_deviation, Dec(26631, 2), Dec(26633, 2))
            /\ SmallAdjustment(t)

C10_Witness == CanonicalReturned(1)

\* The last call of t was win_probability.
WinProbabilityCalled(t) == args[t].op = "win_probability"

InUnitInterval(r) ==
    /\ r.kind = "float"
    /\ FGe(r.value, Zero)
    /\ FLe(r.value, One)

\* What t was handed is what the same call hands back for every rd_a.
IgnoresOwnDeviation(t) ==
    \A rd_a \in QueryDeviations :
        result[t] = WinProbabilityResult(args[t].rating_a, rd_a,
                                         args[t].rating_b, args[t].rd_b)

\* Nothing but what the callers hold differs from the state after
\* construction.
OnlyCallersChanged ==
    /\ engine = [tau |-> engine.given, status |-> "ready", given |-> engine.given]
    /\ subject = [t \in Threads |-> SharedSubjects[t]]
    /\ updates = [t \in Threads |-> 0]
    /\ pc = [t \in Threads |-> "idle"]
    /\ frame = [t \in Threads |-> NoFrame]

\* C11: win_probability(rating_a, rd_a, rating_b, rd_b) returns a value in
\* [0, 1] that is the same for every rd_a, and the call has no side effects.
C11_WinProbabilityInUnitInterval ==
    \A t \in Threads :
        WinProbabilityCalled(t) =>
            /\ InUnitInterval(result[t])
            /\ IgnoresOwnDeviation(t)
            /\ OnlyCallersChanged

\* The parts of C11 that hold: whatever win_probability hands back, a float
\* in [0, 1] or the OverflowError, is the same for every rd_a, and the call
\* has no side effects.
WinProbabilityIgnoresOwnDeviation ==
    \A t \in Threads :
        WinProbabilityCalled(t) =>
            /\ result[t].kind = "float" => InUnitInterval(result[t])
            /\ IgnoresOwnDeviation(t)
            /\ OnlyCallersChanged

\* win_probability(1500, 350, 130000, 0) has raised OverflowError.
WinProbabilityRaised ==
    /\ WinProbabilityCalled(1)
    /\ args[1].rating_a = FromInt(1500)
    /\ args[1].rating_b = FromInt(130000)
    /\ args[1].rd_b = Zero
    /\ result[1].kind = "OverflowError"

ProbabilityTolerance == Dec(1, 6)

\* win_probability with the two subjects of t's call exchanged.
Exchanged(t) ==
    WinProbabilityResult(args[t].rating_b, args[t].rd_b,
                         args[t].rating_a, args[t].rd_a)

\* t's call and the exchanged call both returned a probability.
BothReturned(t) ==
    /\ WinProbabilityCalled(t)
    /\ result[t].kind = "float"
    /\ Exchanged(t).kind = "float"

\* How far the two probabilities are from summing to 1.
ComplementGap(t) == FAbs(FSub(FAdd(result[t].value, Exchanged(t).value), One))

Complementary(t) == FLe(ComplementGap(t), ProbabilityTolerance)

\* Ratings near the conventional centre of the scale.
OrdinaryRating(rating) ==
    FGe(rating, FromInt(1000)) /\ FLe(rating, FromInt(2000))

IntervalCalled(t) == args[t].op = "confidence_interval"

\* The z-score the claim gives for a level.
StatedZ(level) ==
    IF level = Dec(90, 2) THEN Dec(1645, 3)
    ELSE IF level = Dec(99, 2) THEN Dec(2576, 3)
    ELSE Dec(196, 2)

\* t was handed (rating - z * rd, rating + z * rd), each operation rounded.
IntervalAsStated(t) ==
    /\ result[t].kind = "tuple"
    /\ result[t].lower =
          FSub(args[t].rating, FMul(StatedZ(args[t].confidence), args[t].rd))
    /\ result[t].upper =
          FAdd(args[t].rating, FMul(StatedZ(args[t].confidence), args[t].rd))

\* upper - rating and rating - lower.
UpperArm(t) == FSub(result[t].upper, args[t].rating)
LowerArm(t) == FSub(args[t].rating, result[t].lower)

\* The width upper - lower against 2 * z * rd.
WidthError(t) ==
    FAbs(FSub(FSub(result[t].upper, result[t].lower),
              FMul(Two, FMul(StatedZ(args[t].confidence), args[t].rd))))

\* C13 as stated: confidence_interval returns (rating - z * rd,
\* rating + z * rd) with z = 1.645, 1.96, 2.576 for the levels 0.90, 0.95,
\* 0.99 and 1.96 for every other level, and the interval is symmetric about
\* rating: upper - rating = rating - lower.
C13_IntervalExactlySymmetric ==
    \A t \in Threads :
        IntervalCalled(t) =>
            /\ IntervalAsStated(t)
            /\ UpperArm(t) = LowerArm(t)

\* C13: confidence_interval returns (rating - z * rd, rating + z * rd) with
\* z = 1.645, 1.96, 2.576 for the levels 0.90, 0.95, 0.99 and 1.96 for every
\* other level; upper - rating and rating - lower agree, and upper - lower
\* agrees with 2 * z * rd, up to the rounding of the float operations.
C13_IntervalSymmetricWithinRounding ==
    \A t \in Threads :
        IntervalCalled(t) =>
            /\ IntervalAsStated(t)
            /\ FLe(FAbs(FSub(UpperArm(t), LowerArm(t))), RatingTolerance)
            /\ FLe(WidthError(t), RatingTolerance)

\* confidence_interval(1687, 150, 0.5) has fallen back to z = 1.96 and
\* returned (1393, 1981).
C13_Witness ==
    /\ IntervalCalled(1)
    /\ args[1].rating = FromInt(1687)
    /\ args[1].rd = FromInt(150)
    /\ args[1].confidence = Half
    /\ result[1] = TupleResult(FromInt(1393), FromInt(1981))

\* The last call of t was get_confidence.
LabelCalled(t) == args[t].op = "get_confidence"

\* The labels from the most to the least confident.
Labels == <<"Very Confident", "Confident", "Moderately Confident", "Uncertain">>

LabelRank(r) == CHOOSE i \in 1..Len(Labels) : Labels[i] = r.value

\* rd lies in [lo, hi).
InBand(rd, lo, hi) == FGe(rd, FromInt(lo)) /\ FLt(rd, FromInt(hi))

\* C14: get_confidence(rd) always returns one of the four labels: Very
\* Confident for rd < 100, Confident for 100 <= rd < 200, Moderately
\* Confident for 200 <= rd < 300 and Uncertain for rd >= 300, so that 100,
\* 200 and 300 fall in the less confident class; a larger rd never yields a
\* more confident label.
C14_LabelThresholds ==
    \A t \in Threads :
        LabelCalled(t) =>
            /\ result[t].kind = "str"
            /\ \E i \in 1..Len(Labels) : Labels[i] = result[t].value
            /\ FLt(args[t].rd, FromInt(100)) => result[t].value = Labels[1]
            /\ InBand(args[t].rd, 100, 200) => result[t].value = Labels[2]
            /\ InBand(args[t].rd, 200, 300) => result[t].value = Labels[3]
            /\ FGe(args[t].rd, FromInt(300)) => result[t].value = Labels[4]
            /\ \A rd \in LabelDeviations :
                  FLe(args[t].rd, rd)
                      => LabelRank(result[t]) <= LabelRank(GetConfidence(rd))

\* get_confidence(100) has returned Confident.
C14_Witness ==
    /\ LabelCalled(1)
    /\ args[1].rd = FromInt(100)
    /\ result[1] = StrResult("Confident")

\* s is a str of exactly 11 characters, each of A-Z, a-z, 0-9, "_" or "-".
ElevenIdChars(s) == s.kind = "str" /\ PatternMatchesWhole(s.chars)

\* C15: validate_youtube_video_id(s) returns True exactly when s is a str of
\* exactly 11 characters of A-Z, a-z, 0-9, "_", "-", and False for None, the
\* empty string, every other length and every string with another
\* character, whitespace and a trailing newline included.
C15_ValidExactlyForElevenIdChars ==
    \A t \in Threads :
        args[t].op = "validate_youtube_video_id"
            => result[t] = BoolResult(ElevenIdChars(args[t].video_id))

\* needle occurs in hay.
Contains(hay, needle) ==
    \E i \in 1..(Len(hay) - Len(needle) + 1) :
        SubSeq(hay, i, i + Len(needle) - 1) = needle

SCRIPT_TAG == <<"<", "s", "c", "r", "i", "p", "t", ">">>

\* The video_id of t's call with the whitespace around it removed.
StrippedId(t) ==
    IF args[t].video_id.kind = "str"
    THEN Str(Strip(args[t].video_id.chars))
    ELSE None

\* The src attribute the iframe is to carry for t's call.
StatedSrc(t) ==
    IFRAME_UP_TO_ID \o StrippedId(t).chars \o IFRAME_UP_TO_AUTOPLAY
        \o AutoplayParam(args[t].autoplay) \o <<"\"">>

\* C16: create_safe_youtube_embed returns None for every video_id that,
\* stripped of surrounding whitespace, is not a valid 11-character id; the
\* HTML it returns carries the validated id as the only supplied text of
\* its src, carries autoplay=1 iff autoplay is true, and never contains a
\* <script> tag.
C16_EmbedIsSafe ==
    \A t \in Threads :
        args[t].op = "create_safe_youtube_embed" =>
            /\ ~ElevenIdChars(StrippedId(t)) => result[t] = None
            /\ result[t].kind = "str" =>
                  /\ Contains(result[t].chars, StatedSrc(t))
                  /\ Contains(result[t].chars, IFRAME_UP_TO_AUTOPLAY \o <<"1">>)
                         <=> args[t].autoplay
                  /\ ~Contains(result[t].chars, SCRIPT_TAG)

\* The part of C16 about the id: None for every id that is not valid once
\* stripped, and otherwise the validated id and the autoplay flag in src.
EmbedCarriesValidatedId ==
    \A t \in Threads :
        args[t].op = "create_safe_youtube_embed" =>
            /\ ~ElevenIdChars(StrippedId(t)) => result[t] = None
            /\ result[t].kind = "str" => Contains(result[t].chars, StatedSrc(t))

\* s has no whitespace at either end.
Trimmed(chars) ==
    chars # <<>> => (Head(chars) \notin Whitespace
                     /\ chars[Len(chars)] \notin Whitespace)

\* C17: sanitize_search_query(query, max_length) returns "" for None or
\* empty input and otherwise a string of length at most max_length with no
\* leading or trailing whitespace, for every max_length >= 0; applying it a
\* second time with the same max_length changes nothing.
C17_SanitizedQueryTrimmedAndIdempotent ==
    \A t \in Threads :
        (args[t].op = "sanitize_search_query" /\ args[t].max_length >= 0) =>
            /\ Falsy(args[t].query) => result[t] = Str(<<>>)
            /\ result[t].kind = "str"
            /\ Len(result[t].chars) <= args[t].max_length
            /\ Trimmed(result[t].chars)
            /\ SanitizeSearchQuery(result[t], args[t].max_length) = result[t]

\* The part of C17 that holds: "" for None or empty input, a str of length
\* at most max_length otherwise.
SanitizedQueryWithinLength ==
    \A t \in Threads :
        (args[t].op = "sanitize_search_query" /\ args[t].max_length >= 0) =>
            /\ Falsy(args[t].query) => result[t] = Str(<<>>)
            /\ result[t].kind = "str"
            /\ Len(result[t].chars) <= args[t].max_length

(***************************************************************************)
(* The initial bracket of _new_volatility.                                 *)
(***************************************************************************)
\* f at a - j * tau, for the locals held in frame fr.
FAtBracketPoint(fr, j) ==
    F(BracketPoint(fr.a, j, engine.tau), fr.delta, fr.phi, fr.v, fr.a,
      engine.tau)

\* delta^2 - phi^2 - v of frame fr.
DeltaExcess(fr) == FSub(FSub(Sq(fr.delta), Sq(fr.phi)), fr.v)

\* Caller t's step from update_rating's entry straight into the Illinois
\* loop: "B = math.log(delta**2 - phi**2 - v)".
LogBranchTaken(t) == pc[t] = "idle" /\ pc'[t] = "illinois"

\* Caller t's step out of "while f(a - k * self.tau) < 0" into the
\* Illinois loop: "B = a - k * self.tau".
BracketLoopLeft(t) == pc[t] = "bracket" /\ pc'[t] = "illinois"

\* A = a = ln(sigma^2) in the frame caller t enters the solver with.
StartsAtLogVariance(t) ==
    /\ frame'[FrameOf(t)].a = Ln(Sq(args'[t].volatility))
    /\ frame'[FrameOf(t)].A = frame'[FrameOf(t)].a

\* C18 as stated: A = a = ln(sigma^2); B = ln(delta^2 - phi^2 - v) when that
\* difference is positive; otherwise B = a - k * tau for the smallest
\* integer k >= 1 at which f(a - k * tau) < 0.
C18_BracketStopsAtNegativeF ==
    [][\A t \in Threads :
          /\ LogBranchTaken(t) =>
                /\ StartsAtLogVariance(t)
                /\ FGt(DeltaExcess(frame'[FrameOf(t)]), Zero)
                /\ frame'[FrameOf(t)].B = Ln(DeltaExcess(frame'[FrameOf(t)]))
          /\ BracketLoopLeft(t) =>
                /\ frame'[FrameOf(t)].A = frame[FrameOf(t)].a
                /\ frame'[FrameOf(t)].B =
                       BracketPoint(frame[FrameOf(t)].a, frame[FrameOf(t)].k,
                                    engine.tau)
                /\ FLt(FAtBracketPoint(frame[FrameOf(t)],
                                       frame[FrameOf(t)].k), Zero)
                /\ \A j \in 1..(frame[FrameOf(t)].k - 1) :
                       ~FLt(FAtBracketPoint(frame[FrameOf(t)], j), Zero)]_vars

\* C18 as the code has it: A = a = ln(sigma^2); B = ln(delta^2 - phi^2 - v)
\* when delta^2 > phi^2 + v; otherwise k starts at 1 and is increased while
\* f(a - k * tau) < 0, so that B = a - k * tau for the smallest integer
\* k >= 1 at which f(a - k * tau) is not negative.
C18_BracketStopsAtNonNegativeF ==
    [][\A t \in Threads :
          /\ LogBranchTaken(t) =>
                /\ StartsAtLogVariance(t)
                /\ FGt(DeltaExcess(frame'[FrameOf(t)]), Zero)
                /\ frame'[FrameOf(t)].B = Ln(DeltaExcess(frame'[FrameOf(t)]))
          /\ (pc[t] = "idle" /\ pc'[t] = "bracket") =>
                /\ StartsAtLogVariance(t)
                /\ ~FGt(DeltaExcess(frame'[FrameOf(t)]), Zero)
                /\ frame'[FrameOf(t)].k = 1
          /\ (pc[t] = "bracket" /\ pc'[t] = "bracket_body") =>
                FLt(FAtBracketPoint(frame[FrameOf(t)], frame[FrameOf(t)].k),
                    Zero)
          /\ (pc[t] = "bracket_body" /\ pc'[t] = "bracket") =>
                frame'[FrameOf(t)].k = frame[FrameOf(t)].k + 1
          /\ BracketLoopLeft(t) =>
                /\ frame'[FrameOf(t)].A = frame[FrameOf(t)].a
                /\ frame'[FrameOf(t)].B =
                       BracketPoint(frame[FrameOf(t)].a, frame[FrameOf(t)].k,
                                    engine.tau)
                /\ ~FLt(FAtBracketPoint(frame[FrameOf(t)],
                                        frame[FrameOf(t)].k), Zero)
                /\ \A j \in 1..(frame[FrameOf(t)].k - 1) :
                       FLt(FAtBracketPoint(frame[FrameOf(t)], j), Zero)]_vars

\* A caller has just left the bracket loop: k >= 1, A = a, B = a - k * tau,
\* and f(B) is not negative.
C18_Witness ==
    \E t \in Threads :
        /\ pc[t] = "illinois"
        /\ frame[FrameOf(t)].k >= 1
        /\ frame[FrameOf(t)].A = frame[FrameOf(t)].a
        /\ frame[FrameOf(t)].B =
               BracketPoint(frame[FrameOf(t)].a, frame[FrameOf(t)].k,
                            engine.tau)
        /\ frame[FrameOf(t)].fB = FAtBracketPoint(frame[FrameOf(t)],
                                                  frame[FrameOf(t)].k)
        /\ FGt(frame[FrameOf(t)].fB, Zero)

(***************************************************************************)
(* The bracket kept by the Illinois loop of _new_volatility.               *)
(***************************************************************************)
\* Caller t is at the test or in the body of the Illinois loop.
InIllinoisLoop(t) == pc[t] \in {"illinois", "illinois_body"}

\* "fA * fB <= 0" for the stored values.
RootBracketed(st) == FLe(FMul(st.fA, st.fB), Zero)

\* x lies between A and B, ends included.
Between(x, A, B) ==
    \/ FLe(A, x) /\ FLe(x, B)
    \/ FLe(B, x) /\ FLe(x, A)

\* At the loop's test, on entry and after every iteration, fA * fB <= 0.
IllinoisKeepsRootBracketed ==
    \A t \in Threads :
        InIllinoisLoop(t) => RootBracketed(Solver(frame[FrameOf(t)]))

\* fB - fA is not zero while A differs from B.
IllinoisDivisorNonZero ==
    \A t \in Threads :
        (InIllinoisLoop(t) /\ frame[FrameOf(t)].A # frame[FrameOf(t)].B) =>
            ~InterpolationRaises(Solver(frame[FrameOf(t)]))

\* In the body, C = A + (A - B) * fA / (fB - fA) lies between A and B.
IllinoisInterpolatesInside ==
    \A t \in Threads :
        pc[t] = "illinois_body" =>
            Between(Interpolate(Solver(frame[FrameOf(t)])),
                    frame[FrameOf(t)].A, frame[FrameOf(t)].B)

\* C19: the Illinois loop keeps the root bracketed: on entry and after
\* every iteration fA * fB <= 0, so fB - fA is never zero while A differs
\* from B, and the interpolation C = A + (A - B) * fA / (fB - fA) never
\* divides by zero and always lies between A and B.
C19_IllinoisKeepsBracket ==
    /\ IllinoisKeepsRootBracketed
    /\ IllinoisDivisorNonZero
    /\ IllinoisInterpolatesInside

(***************************************************************************)
(* Inactivity decay and the 350 ceiling.                                   *)
(***************************************************************************)
\* min(350, sqrt(d^2 + days * 0.5)) when days > 0, and d otherwise.
DecayAsStated(d, days) ==
    IF days > 0
    THEN LET inflated ==
                 Sqrt(FAdd(FMul(d, d), FMul(FromInt(days), RD_INCREASE_PER_DAY)))
         IN  IF FLt(inflated, MAX_RD) THEN inflated ELSE MAX_RD
    ELSE d

\* Caller t is inside update_rating, past the decay and the scale
\* conversion, or has returned from there.
PastDecay(t) ==
    /\ args[t].op = "update_rating"
    /\ Len(args[t].opponents) >= 1
    /\ pc[t] \in {"bracket", "bracket_body", "illinois", "illinois_body",
                  "returned"}

\* Steps 6-8 for the deviation, from the locals of frame fr and the new
\* volatility, with no ceiling: 1 / sqrt(1 / phi_star^2 + 1 / v) * SCALE.
UnclampedDeviation(fr, new_sigma) ==
    LET phi_star == Sqrt(FAdd(FMul(fr.phi, fr.phi), FMul(new_sigma, new_sigma)))
    IN  FMul(FDiv(One, Sqrt(FAdd(FDiv(One, FMul(phi_star, phi_star)),
                                 FDiv(One, fr.v)))),
             SCALE)

\* C20: inactivity decay is the first step of update_rating and is applied
\* iff days_since_last > 0: the deviation becomes
\* min(350, sqrt(deviation^2 + days_since_last * 0.5)), and that value is the
\* one every later step uses (the early return without opponents, the scale
\* conversion before the solver); the 350 ceiling is applied nowhere else:
\* with days_since_last = 0 an input deviation above 350 is passed through,
\* and the deviation returned after an update is the computed one, unclamped.
C20_DecayFirstAndOnlyCeiling ==
    \A t \in Threads :
        /\ (Returned(t) /\ Len(args[t].opponents) = 0) =>
               result[t].rating_deviation =
                   DecayAsStated(args[t].rd, args[t].days)
        /\ PastDecay(t) =>
               frame[FrameOf(t)].phi =
                   FDiv(DecayAsStated(args[t].rd, args[t].days), SCALE)
        /\ (PastDecay(t) /\ pc[t] = "returned") =>
               result[t].rating_deviation =
                   UnclampedDeviation(frame[FrameOf(t)], result[t].volatility)

\* With days_since_last = 0 a deviation above 350 went into an update with
\* one opponent and the returned deviation is above 350 as well.
C20_Witness ==
    /\ Returned(1)
    /\ args[1].days = 0
    /\ Len(args[1].opponents) = 1
    /\ FGt(args[1].rd, MAX_RD)
    /\ FGt(frame[FrameOf(1)].phi, FDiv(MAX_RD, SCALE))
    /\ FGt(result[1].rating_deviation, MAX_RD)

\* Thirty days of inactivity inflated the deviation before an update with
\* one opponent, which then used the inflated value.
DecayedBeforeUpdate ==
    /\ Returned(1)
    /\ args[1].days > 0
    /\ Len(args[1].opponents) = 1
    /\ FLt(args[1].rd, MAX_RD)
    /\ FGt(frame[FrameOf(1)].phi, FDiv(args[1].rd, SCALE))

(***************************************************************************)
(* The direction of a rating change.                                       *)
(***************************************************************************)
\* A valid update_rating call with one opponent and days_since_last = 0
\* returned.
SingleGameReturned(t) ==
    /\ Returned(t)
    /\ ValidCall(args[t])
    /\ Len(args[t].opponents) = 1
    /\ args[t].days = 0

\* The expected score of the call's subject against its first opponent,
\* from the ratings handed in.
ExpectedScore(call) ==
    E(ScaleToGlicko2(call.rating, call.rd)[1],
      OpponentG2(call.opponents[1]).mu, OpponentG2(call.opponents[1]).phi)

\* C29: a valid call with one opponent and days_since_last = 0 moves the
\* rating in the direction of the surprise: an outcome of 1 never lowers it,
\* an outcome of 0 never raises it, new_rating >= rating iff outcome >= E;
\* and the returned volatility is strictly positive.
C29_RatingMovesWithSurprise ==
    \A t \in Threads :
        SingleGameReturned(t) =>
            /\ args[t].opponents[1].outcome = One
                  => FGe(result[t].rating, args[t].rating)
            /\ args[t].opponents[1].outcome = Zero
                  => FLe(result[t].rating, args[t].rating)
            /\ FGe(result[t].rating, args[t].rating)
                  <=> FGe(args[t].opponents[1].outcome, ExpectedScore(args[t]))
            /\ FGt(result[t].volatility, Zero)

\* The parts of C29 that hold on every call followed: the returned
\* volatility is strictly positive, and a rating that rose (fell) by more
\* than the rounding of the scale conversion did so on an outcome above
\* (below) the expected score.
RatingMovesWithSurpriseBeyondRounding ==
    \A t \in Threads :
        SingleGameReturned(t) =>
            /\ FGt(result[t].volatility, Zero)
            /\ FGt(FSub(result[t].rating, args[t].rating), RatingTolerance)
                  => FGt(args[t].opponents[1].outcome, ExpectedScore(args[t]))
            /\ FLt(FSub(result[t].rating, args[t].rating), Neg(RatingTolerance))
                  => FLt(args[t].opponents[1].outcome, ExpectedScore(args[t]))

(***************************************************************************)
(* A variance whose denominator is zero.                                   *)
(***************************************************************************)
\* Caller t is in a valid update_rating call, past _v, and the sum of
\* g^2 * E * (1 - E) over the call's opponents is exactly 0.
ZeroDenominatorCall(t) ==
    /\ args[t].op = "update_rating"
    /\ pc[t] \in Positions \ {"idle"}
    /\ ValidCall(args[t])
    /\ Len(args[t].opponents) >= 1
    /\ ~VRaises(ScaleToGlicko2(args[t].rating, args[t].rd)[1],
                OpponentsG2(args[t].opponents))
    /\ IsZero(VInv(ScaleToGlicko2(args[t].rating, args[t].rd)[1],
                   OpponentsG2(args[t].opponents), 1, Zero))

\* C30: when the denominator of _v is exactly zero, _v returns infinity, and
\* update_rating completes without raising and returns a rating triple.
C30_ZeroDenominatorCompletes ==
    /\ [](\A t \in Threads :
             ZeroDenominatorCall(t) =>
                 /\ pc[t] # "raised"
                 /\ pc[t] # "returned" => frame[FrameOf(t)].v = Inf
                 /\ pc[t] = "returned" => result[t].kind = "RatingUpdate")
    /\ \A t \in Threads :
           ZeroDenominatorCall(t) ~> (ZeroDenominatorCall(t) /\ pc[t] = "returned")

\* A call with two opponents, each far below the subject, whose variance
\* was infinite, returned a rating triple.
C30_Witness ==
    /\ ZeroDenominatorCall(1)
    /\ Len(args[1].opponents) = 2
    /\ frame[FrameOf(1)].v = Inf
    /\ pc[1] = "returned"
    /\ result[1].kind = "RatingUpdate"
    /\ IsFinite(result[1].rating)
    /\ IsFinite(result[1].rating_deviation)

(***************************************************************************)
(* The application: the songs and comparisons tables of                    *)
(* DatabaseOperations and AdminOperations, and the Duel Mode, Playlist and *)
(* Admin pages working on them through one st.session_state.               *)
(***************************************************************************)
\* The song_id values of the catalogue.
SongIds == 1..3

\* models.py, class Song: the column defaults of a new row.  The two
\* confidence interval columns are nullable and have no default.
NewSong ==
    [rating |-> FromInt(1500), rating_deviation |-> FromInt(350),
     volatility |-> Dec(6, 2),
     confidence_interval_lower |-> None, confidence_interval_upper |-> None,
     games_played |-> 0, wins |-> 0, losses |-> 0, draws |-> 0,
     is_original |-> TRUE, original_song_id |-> None, variant_type |-> None]

\* An int held where None can be held as well.
IntResult(n) == [kind |-> "int", value |-> n]

\* "(song.rating, song.rating_deviation, song.volatility)".
Triple(song) == <<song.rating, song.rating_deviation, song.volatility>>

\* "rating - 2 * rd" and "rating + 2 * rd".
IntervalLower(rating, rd) == FSub(rating, FMul(Two, rd))

IntervalUpper(rating, rd) == FAdd(rating, FMul(Two, rd))

\* DatabaseOperations.update_song_rating: the three rating columns and the
\* confidence interval of row song_id.
UpdateSongRating(tbl, song_id, rating, rd, volatility) ==
    [tbl EXCEPT ![song_id] =
        [@ EXCEPT !.rating = rating, !.rating_deviation = rd,
                  !.volatility = volatility,
                  !.confidence_interval_lower = IntervalLower(rating, rd),
                  !.confidence_interval_upper = IntervalUpper(rating, rd)]]

\* update_song_stats with every outcome above 0.5 counted as a win and every
\* outcome below 0.5 as a loss.
CountedBySide(row, outcome) ==
    IF FGt(outcome, Half)
    THEN [row EXCEPT !.games_played = @ + 1, !.wins = @ + 1]
    ELSE IF FLt(outcome, Half)
    THEN [row EXCEPT !.games_played = @ + 1, !.losses = @ + 1]
    ELSE [row EXCEPT !.games_played = @ + 1, !.draws = @ + 1]

\* DatabaseOperations.update_song_stats on one row: "games_played += 1",
\* then a win for exactly 1.0, a loss for exactly 0.0, a draw otherwise.
Counted(row, outcome) ==
    IF outcome = One
    THEN [row EXCEPT !.games_played = @ + 1, !.wins = @ + 1]
    ELSE IF outcome = Zero
    THEN [row EXCEPT !.games_played = @ + 1, !.losses = @ + 1]
    ELSE [row EXCEPT !.games_played = @ + 1, !.draws = @ + 1]

UpdateSongStats(tbl, song_id, outcome) ==
    [tbl EXCEPT ![song_id] = Counted(@, outcome)]

\* The opponent's side given the outcome of the first side.
SameOutcome(outcome) == outcome

\* "1.0 - outcome_value".
Complement(outcome) == FSub(One, outcome)

\* "was_upset = (expected < 0.4 and outcome == 1.0) or (expected > 0.6 and
\* outcome == 0.0)".
WasUpset(expected, outcome) ==
    \/ FLt(expected, Dec(4, 1)) /\ outcome = One
    \/ FGt(expected, Dec(6, 1)) /\ outcome = Zero

\* The Comparison row DatabaseOperations.record_comparison inserts.
ComparisonRow(song_a_id, song_b_id, outcome, outcome_type, song_a_before,
              song_a_after, song_b_before, song_b_after, comparison_mode,
              expected) ==
    [outcome |-> outcome, song_a_id |-> song_a_id, song_b_id |-> song_b_id,
     outcome_type |-> outcome_type,
     song_a_before |-> song_a_before, song_a_after |-> song_a_after,
     song_b_before |-> song_b_before, song_b_after |-> song_b_after,
     comparison_mode |-> comparison_mode,
     winner_id |-> IF outcome = One THEN IntResult(song_a_id)
                   ELSE IF outcome = Zero THEN IntResult(song_b_id)
                   ELSE None,
     expected_outcome |-> expected,
     rating_impact |-> FAbs(FSub(song_a_after[1], song_a_before[1])),
     was_upset |-> WasUpset(expected, outcome),
     is_undone |-> FALSE]

\* DatabaseOperations.record_comparison: "calc.win_probability(...)" on the
\* before-snapshots, then the insert.
RecordComparison(tbl, song_a_id, song_b_id, outcome, outcome_type,
                 song_a_before, song_a_after, song_b_before, song_b_after,
                 comparison_mode) ==
    Append(tbl,
           ComparisonRow(song_a_id, song_b_id, outcome, outcome_type,
                         song_a_before, song_a_after, song_b_before,
                         song_b_after, comparison_mode,
                         WinProbability(song_a_before[1], song_a_before[2],
                                        song_b_before[1], song_b_before[2])))

\* DatabaseOperations.get_comparison_count: the rows with is_undone false.
GetComparisonCount(tbl) ==
    Cardinality({i \in DOMAIN tbl : ~tbl[i].is_undone})

\* The outcome values of the buttons of both pages.
Outcomes == {One, Dec(75, 2), Half, Dec(25, 2), Zero}

\* "calc.update_rating(song[0], song[1], song[2],
\* opponents=[Opponent(rating=..., rating_deviation=..., outcome=...)])" on a
\* calculator with the given tau.
UpdateRatingWith(tau, song, opponent, outcome) ==
    RunAlone(Call("update_rating", song[1], song[2], song[3],
                  <<Opponent(opponent[1], opponent[2], outcome)>>, 0), tau)

\* The triple of a song that has never been compared.
NewTriple == Triple(NewSong)

\* update_rating reads its arguments and self.tau and nothing else: what the
\* calculator of get_calculator, "Glicko2Calculator()" with tau 0.5, returns
\* for the songs and opponents in triples and the outcomes in outcomes.
RatingTable(triples, outcomes) ==
    [call \in triples \X triples \X outcomes |->
        UpdateRatingWith(Half, call[1], call[2], call[3])]

\* The call on the cached calculator of get_calculator.
UpdateRating(song, opponent, outcome) ==
    rating_table[<<song, opponent, outcome>>]

\* "(result.rating, result.rating_deviation, result.volatility)".
AfterTriple(res) == <<res.rating, res.rating_deviation, res.volatility>>

\* The four table writes of record_outcome and of the playlist's
\* record_comparison, in their order: both ratings, then both counters.
Persisted(tbl, song_a_id, song_b_id, after_a, after_b, outcome) ==
    UpdateSongStats(
        UpdateSongStats(
            UpdateSongRating(
                UpdateSongRating(tbl, song_a_id,
                                 after_a[1], after_a[2], after_a[3]),
                song_b_id, after_b[1], after_b[2], after_b[3]),
            song_a_id, outcome),
        song_b_id, Complement(outcome))

\* The calculator's variables, which the pages never write: every call of
\* update_rating on a page runs to its end inside the handler.
calc ==
    <<engine, subject, updates, pc, args, frame, result, rating_table>>

(***************************************************************************)
(* 1_Duel_Mode.py.                                                         *)
(***************************************************************************)
\* The five outcome buttons: "record_outcome(1.0, "decisive_win")" ...
DuelButtons ==
    {<<One, "decisive_win">>, <<Dec(75, 2), "slight_win">>,
     <<Half, "draw">>, <<Dec(25, 2), "slight_loss">>,
     <<Zero, "decisive_loss">>}

\* get_filtered_songs with the sidebar left as it is: every language and
\* category, "Include variants" unchecked, no minimum of comparisons.
GetFilteredSongs == {id \in SongIds : songs[id].is_original}

\* "abs(s.rating - song_a.rating) < 200" over the other songs.
Candidates(pool, song_a) ==
    {s \in pool \ {song_a} :
        FLt(FAbs(FSub(songs[s].rating, songs[song_a].rating)), FromInt(200))}

\* select_random_pair: the pairs random.randint and random.choice can
\* produce; none with fewer than two songs.
SelectRandomPair ==
    IF Cardinality(GetFilteredSongs) < 2 THEN {}
    ELSE {<<song_a, song_b>> \in GetFilteredSongs \X GetFilteredSongs :
            song_b \in IF Candidates(GetFilteredSongs, song_a) # {}
                       THEN Candidates(GetFilteredSongs, song_a)
                       ELSE GetFilteredSongs \ {song_a}}

\* "(song_a.song_id, song_b.song_id)".
PairResult(pair) ==
    [kind |-> "tuple", song_a_id |-> pair[1], song_b_id |-> pair[2]]

\* The page is run with "current_pair is None": select_random_pair returns
\* pair and its ids are kept.  With no pair the page stops and nothing
\* changes.
LoadPair(pair) ==
    /\ session_state.current_pair = None
    /\ pair \in SelectRandomPair
    /\ session_state' = [session_state EXCEPT
                            !.current_pair = PairResult(pair)]
    /\ UNCHANGED <<calc, songs, comparisons, admin_actions>>

\* What record_outcome keeps in st.session_state.last_comparison.
LastComparison(comparison_id, song_a_id, song_b_id, song_a_before,
               song_b_before, outcome_label, outcome_value) ==
    [song_a_id |-> song_a_id, song_b_id |-> song_b_id,
     song_a_before |-> song_a_before, song_b_before |-> song_b_before,
     comparison_id |-> comparison_id, outcome_label |-> outcome_label,
     outcome_value |-> outcome_value]

\* record_outcome(outcome_value, outcome_label) on the pair the page has
\* loaded; the outcome buttons are drawn on every run of the page.
RecordOutcome(outcome_value, outcome_label) ==
    /\ session_state.current_pair # None
    /\ LET song_a == session_state.current_pair.song_a_id
           song_b == session_state.current_pair.song_b_id
           song_a_before == Triple(songs[song_a])
           song_b_before == Triple(songs[song_b])
       IN  \E result_a \in {UpdateRating(song_a_before, song_b_before,
                                         outcome_value)} :
           \E result_b \in {UpdateRating(song_b_before, song_a_before,
                                         Complement(outcome_value))} :
              /\ result_a.kind = "RatingUpdate"
              /\ result_b.kind = "RatingUpdate"
              /\ songs' = Persisted(songs, song_a, song_b,
                                    AfterTriple(result_a),
                                    AfterTriple(result_b), outcome_value)
              /\ comparisons' =
                    RecordComparison(comparisons, song_a, song_b,
                                     outcome_value, outcome_label,
                                     song_a_before, AfterTriple(result_a),
                                     song_b_before, AfterTriple(result_b),
                                     "duel")
              /\ session_state' =
                    [session_state EXCEPT
                        !.last_comparison =
                            LastComparison(Len(comparisons) + 1, song_a,
                                           song_b, song_a_before,
                                           song_b_before, outcome_label,
                                           outcome_value),
                        !.comparison_count = @ + 1,
                        !.show_result = TRUE]
    /\ UNCHANGED <<calc, admin_actions>>

\* undo_last_comparison's "Decrement stats" with the counters of a draw
\* decremented whatever the outcome was.
UncountedAsDraw(row, outcome) ==
    [row EXCEPT !.games_played = Max(0, @ - 1), !.draws = Max(0, @ - 1)]

\* undo_last_comparison, "Decrement stats": every counter is held at 0.
Uncounted(row, outcome) ==
    IF outcome = One
    THEN [row EXCEPT !.games_played = Max(0, @ - 1), !.wins = Max(0, @ - 1)]
    ELSE IF outcome = Zero
    THEN [row EXCEPT !.games_played = Max(0, @ - 1),
                     !.losses = Max(0, @ - 1)]
    ELSE [row EXCEPT !.games_played = Max(0, @ - 1), !.draws = Max(0, @ - 1)]

\* undo_last_comparison, "Restore previous ratings" of one song: the three
\* columns from the snapshot and the confidence interval from them.
Restored(row, before) ==
    [row EXCEPT !.rating = before[1], !.rating_deviation = before[2],
                !.volatility = before[3],
                !.confidence_interval_lower =
                    IntervalLower(before[1], before[2]),
                !.confidence_interval_upper =
                    IntervalUpper(before[1], before[2])]

\* The songs table after undo_last_comparison has undone last: song_a,
\* then song_b with "1.0 - last['outcome_value']".
SongsAfterUndo(tbl, last) ==
    [[tbl EXCEPT ![last.song_a_id] =
            Uncounted(Restored(@, last.song_a_before), last.outcome_value)]
     EXCEPT ![last.song_b_id] =
            Uncounted(Restored(@, last.song_b_before),
                      Complement(last.outcome_value))]

\* "update({'is_undone': True})" on row comparison_id.
MarkUndone(tbl, comparison_id) ==
    [tbl EXCEPT ![comparison_id] = [@ EXCEPT !.is_undone = TRUE]]

\* st.session_state after undo_last_comparison.
SessionAfterUndo(state) ==
    [state EXCEPT !.last_comparison = None,
                  !.comparison_count = Max(0, @ - 1),
                  !.show_result = FALSE]

\* The "Undo" button, drawn while show_result is set; undo_last_comparison
\* returns at once when there is no last comparison.
UndoLastComparison ==
    /\ session_state.show_result
    /\ session_state.last_comparison # None
    /\ songs' = SongsAfterUndo(songs, session_state.last_comparison)
    /\ comparisons' =
          MarkUndone(comparisons, session_state.last_comparison.comparison_id)
    /\ session_state' = SessionAfterUndo(session_state)
    /\ UNCHANGED <<calc, admin_actions>>

\* The "Next Comparison" button, drawn while show_result is set: the pair is
\* dropped and the page, run again, keeps the pair select_random_pair
\* returns, or none.
NextComparison(pair) ==
    /\ session_state.show_result
    /\ \/ /\ pair \in SelectRandomPair
          /\ session_state' = [session_state EXCEPT
                                  !.current_pair = PairResult(pair),
                                  !.show_result = FALSE]
       \/ /\ SelectRandomPair = {}
          /\ session_state' = [session_state EXCEPT !.current_pair = None,
                                                    !.show_result = FALSE]
    /\ UNCHANGED <<calc, songs, comparisons, admin_actions>>

(***************************************************************************)
(* 5_Playlist.py.                                                          *)
(***************************************************************************)
\* The smallest entry of the "Playlist Length" slider.
PLAYLIST_LENGTH == 5

\* Draws of random.choices that are followed.
MixDraws ==
    {<<1, 2, 3>>, <<3, 1, 1>>, <<1, 3>>, <<3, 3>>, <<3>>}

\* "Random Mix": "random.choices(songs, weights=weights,
\* k=min(playlist_length, len(songs)))" over the original songs; every
\* weight is at least 100, and a song can be drawn more than once.
RandomMix ==
    {draw \in MixDraws :
        /\ Len(draw) = IF PLAYLIST_LENGTH < Cardinality(GetFilteredSongs)
                       THEN PLAYLIST_LENGTH
                       ELSE Cardinality(GetFilteredSongs)
        /\ \A i \in DOMAIN draw : draw[i] \in GetFilteredSongs}

\* "Generate Playlist": the playlist is stored and the player starts over.
GeneratePlaylist(playlist_songs) ==
    /\ playlist_songs \in RandomMix
    /\ session_state' =
          [session_state EXCEPT
              !.playlist = [songs |-> playlist_songs,
                            length |-> Len(playlist_songs)],
              !.current_index = 0,
              !.playlist_comparisons = <<>>,
              !.playlist_complete = FALSE,
              !.vote_recorded = FALSE]
    /\ UNCHANGED <<calc, songs, comparisons, admin_actions>>

\* The "Play & Rank" tab draws its buttons: a playlist is loaded and not
\* complete, and "song_ids[current_idx]" is a song.
PlayerShown ==
    /\ session_state.playlist # None
    /\ ~session_state.playlist_complete
    /\ session_state.current_index < Len(session_state.playlist.songs)

\* The five vote buttons: "record_comparison(1.0, "landslide_prev")" ...
PlaylistButtons ==
    {<<One, "landslide_prev">>, <<Dec(75, 2), "slight_prev">>,
     <<Half, "equal">>, <<Dec(25, 2), "slight_curr">>,
     <<Zero, "landslide_curr">>}

\* What record_comparison appends to st.session_state.playlist_comparisons.
PlaylistComparison(comparison_id, outcome_label, prev_song_id, curr_song_id,
                   prev_old, curr_old, prev_new, curr_new) ==
    [outcome |-> outcome_label, comparison_id |-> comparison_id,
     prev_song_id |-> prev_song_id, curr_song_id |-> curr_song_id,
     prev_delta |-> FSub(prev_new[1], prev_old[1]),
     curr_delta |-> FSub(curr_new[1], curr_old[1]),
     prev_new_rating |-> prev_new[1], curr_new_rating |-> curr_new[1],
     prev_old_rating |-> prev_old[1], prev_old_rd |-> prev_old[2],
     prev_old_vol |-> prev_old[3],
     curr_old_rating |-> curr_old[1], curr_old_rd |-> curr_old[2],
     curr_old_vol |-> curr_old[3]]

\* record_comparison(outcome_value, outcome_label) of the player: the song
\* before the current one against the current one.  The vote buttons are
\* drawn from the second song on while no vote is recorded.
PlaylistRecordComparison(outcome_value, outcome_label) ==
    /\ PlayerShown
    /\ session_state.current_index > 0
    /\ ~session_state.vote_recorded
    /\ LET prev_song == session_state.playlist.songs[session_state.current_index]
           current_song ==
               session_state.playlist.songs[session_state.current_index + 1]
           prev_old == Triple(songs[prev_song])
           curr_old == Triple(songs[current_song])
       IN  \E result_prev \in {UpdateRating(prev_old, curr_old,
                                            outcome_value)} :
           \E result_curr \in {UpdateRating(curr_old, prev_old,
                                            Complement(outcome_value))} :
              /\ result_prev.kind = "RatingUpdate"
              /\ result_curr.kind = "RatingUpdate"
              /\ songs' = Persisted(songs, prev_song, current_song,
                                    AfterTriple(result_prev),
                                    AfterTriple(result_curr), outcome_value)
              /\ comparisons' =
                    RecordComparison(comparisons, prev_song, current_song,
                                     outcome_value, outcome_label,
                                     prev_old, AfterTriple(result_prev),
                                     curr_old, AfterTriple(result_curr),
                                     "playlist")
              /\ session_state' =
                    [session_state EXCEPT
                        !.playlist_comparisons =
                            Append(@, PlaylistComparison(
                                          Len(comparisons) + 1,
                                          outcome_label, prev_song,
                                          current_song, prev_old, curr_old,
                                          AfterTriple(result_prev),
                                          AfterTriple(result_curr))),
                        !.vote_recorded = TRUE]
    /\ UNCHANGED <<calc, admin_actions>>

\* "Undo Vote", "Revert ratings" of one song: the three columns.
Reverted(row, rating, rd, volatility) ==
    [row EXCEPT !.rating = rating, !.rating_deviation = rd,
                !.volatility = volatility]

\* "Undo Vote", "Revert stats": "wins -= 1" and the like on the one side and
\* the mirrored counter on the other, then both "games_played -= 1".
RevertedStats(tbl, prev_song_id, curr_song_id, outcome) ==
    LET first == IF outcome = One
                 THEN [tbl EXCEPT ![prev_song_id].wins = @ - 1]
                 ELSE IF outcome = Zero
                 THEN [tbl EXCEPT ![prev_song_id].losses = @ - 1]
                 ELSE [tbl EXCEPT ![prev_song_id].draws = @ - 1]
        second == IF outcome = One
                  THEN [first EXCEPT ![curr_song_id].losses = @ - 1]
                  ELSE IF outcome = Zero
                  THEN [first EXCEPT ![curr_song_id].wins = @ - 1]
                  ELSE [first EXCEPT ![curr_song_id].draws = @ - 1]
        third == [second EXCEPT ![prev_song_id].games_played = @ - 1]
    IN  [third EXCEPT ![curr_song_id].games_played = @ - 1]

\* The songs table after "Undo Vote" has undone last_comp, whose row of the
\* comparisons table holds outcome.
SongsAfterUndoVote(tbl, last_comp, outcome) ==
    RevertedStats(
        [[tbl EXCEPT ![last_comp.prev_song_id] =
                Reverted(@, last_comp.prev_old_rating, last_comp.prev_old_rd,
                         last_comp.prev_old_vol)]
         EXCEPT ![last_comp.curr_song_id] =
                Reverted(@, last_comp.curr_old_rating, last_comp.curr_old_rd,
                         last_comp.curr_old_vol)],
        last_comp.prev_song_id, last_comp.curr_song_id, outcome)

\* "playlist_comparisons.pop()".
Pop(list) == SubSeq(list, 1, Len(list) - 1)

\* The "Undo Vote" button, drawn once a vote is recorded.
UndoVote ==
    /\ PlayerShown
    /\ session_state.current_index > 0
    /\ session_state.vote_recorded
    /\ session_state.playlist_comparisons # <<>>
    /\ LET last_comp ==
               session_state.playlist_comparisons[
                   Len(session_state.playlist_comparisons)]
       IN  /\ songs' = SongsAfterUndoVote(
                           songs, last_comp,
                           comparisons[last_comp.comparison_id].outcome)
           /\ comparisons' = MarkUndone(comparisons, last_comp.comparison_id)
    /\ session_state' =
          [session_state EXCEPT !.playlist_comparisons = Pop(@),
                                !.vote_recorded = FALSE]
    /\ UNCHANGED <<calc, admin_actions>>

\* "if st.session_state.current_index >= len(song_ids):
\*      st.session_state.playlist_complete = True".
Advanced(state) ==
    [state EXCEPT
        !.current_index = @ + 1,
        !.vote_recorded = FALSE,
        !.playlist_complete =
            IF state.current_index + 1 >= Len(state.playlist.songs)
            THEN TRUE ELSE @]

\* The two "Next Song" buttons: the one under a recorded vote, and the one
\* under the first song, which only moves the index.
NextSong ==
    /\ PlayerShown
    /\ \/ /\ session_state.current_index > 0
          /\ session_state.vote_recorded
          /\ session_state' = Advanced(session_state)
       \/ /\ session_state.current_index = 0
          /\ session_state' = [session_state EXCEPT !.current_index = @ + 1]
    /\ UNCHANGED <<calc, songs, comparisons, admin_actions>>

\* The "Skip Song" button, drawn while no vote is recorded.
SkipSong ==
    /\ PlayerShown
    /\ ~session_state.vote_recorded
    /\ session_state' = Advanced(session_state)
    /\ UNCHANGED <<calc, songs, comparisons, admin_actions>>

(***************************************************************************)
(* admin_operations.py and 4_Admin.py.                                     *)
(***************************************************************************)
\* Python's max and min of two floats: the first argument unless the second
\* is larger, or smaller.
FMax(a, b) == IF FGt(b, a) THEN b ELSE a

FMin(a, b) == IF FLt(b, a) THEN b ELSE a

\* preview_merge, "merged": the average of the ratings weighted by
\* games_played, the lower deviation and the mean volatility; with no games
\* on either side the plain average, the higher deviation and volatility.
PreviewMerge(song1, song2) ==
    LET total_games == song1.games_played + song2.games_played
    IN  [rating |->
            IF total_games = 0
            THEN FDiv(FAdd(song1.rating, song2.rating), Two)
            ELSE FDiv(FAdd(FMul(song1.rating, FromInt(song1.games_played)),
                           FMul(song2.rating, FromInt(song2.games_played))),
                      FromInt(total_games)),
         rd |-> IF total_games = 0
                THEN FMax(song1.rating_deviation, song2.rating_deviation)
                ELSE FMin(song1.rating_deviation, song2.rating_deviation),
         volatility |->
            IF total_games = 0
            THEN FMax(song1.volatility, song2.volatility)
            ELSE FDiv(FAdd(song1.volatility, song2.volatility), Two),
         wins |-> song1.wins + song2.wins,
         losses |-> song1.losses + song2.losses,
         draws |-> song1.draws + song2.draws,
         games |-> total_games]

\* merge_songs, "Update keep_song with merged values" and "Update confidence
\* intervals".
Merged(row, merged) ==
    [row EXCEPT !.rating = merged.rating, !.rating_deviation = merged.rd,
                !.volatility = merged.volatility,
                !.confidence_interval_lower =
                    IntervalLower(merged.rating, merged.rd),
                !.confidence_interval_upper =
                    IntervalUpper(merged.rating, merged.rd),
                !.games_played = merged.games, !.wins = merged.wins,
                !.losses = merged.losses, !.draws = merged.draws]

\* merge_songs, "Mark merge_song as alias (soft delete)".
Aliased(row, keep_song_id) ==
    [row EXCEPT !.is_original = FALSE,
                !.original_song_id = IntResult(keep_song_id),
                !.variant_type = StrResult("alias")]

\* merge_songs, "Update all comparisons referencing merge_song to point to
\* keep_song": one UPDATE for song_a_id, one for song_b_id.
Repointed(tbl, keep_song_id, merge_song_id) ==
    [i \in DOMAIN tbl |->
        [tbl[i] EXCEPT
            !.song_a_id = IF @ = merge_song_id THEN keep_song_id ELSE @,
            !.song_b_id = IF @ = merge_song_id THEN keep_song_id ELSE @]]

\* The AdminAction row merge_songs logs.
AdminAction(keep_song_id, merge_song_id) ==
    [keep_song_id |-> keep_song_id, merge_song_id |-> merge_song_id,
     action_type |-> "merge_songs"]

\* "Execute Merge": merge_songs(keep_song_id, merge_song_id).  The second
\* select box of the page offers every selected song but the one to keep.
MergeSongs(keep_song_id, merge_song_id) ==
    /\ keep_song_id # merge_song_id
    /\ songs' = [[songs EXCEPT ![keep_song_id] =
                        Merged(@, PreviewMerge(songs[keep_song_id],
                                               songs[merge_song_id]))]
                 EXCEPT ![merge_song_id] = Aliased(@, keep_song_id)]
    /\ comparisons' = Repointed(comparisons, keep_song_id, merge_song_id)
    /\ admin_actions' =
          Append(admin_actions, AdminAction(keep_song_id, merge_song_id))
    /\ UNCHANGED <<calc, session_state>>

(***************************************************************************)
(* One session on a fresh catalogue.                                       *)
(***************************************************************************)
\* st.session_state as the pages initialise it.
NewSession ==
    [last_comparison |-> None, playlist_comparisons |-> <<>>,
     current_pair |-> None, comparison_count |-> 0, show_result |-> FALSE,
     playlist |-> None, current_index |-> 0, playlist_complete |-> FALSE,
     vote_recorded |-> FALSE]

\* get_calculator has built "Glicko2Calculator()", tau 0.5; no song has been
\* compared yet.
PagesOpened ==
    /\ engine = [tau |-> Half, status |-> "ready", given |-> Half]
    /\ subject = [t \in Threads |-> Subject(Zero, Zero, Zero)]
    /\ updates = [t \in Threads |-> 0]
    /\ pc = [t \in Threads |-> "idle"]
    /\ args = [t \in Threads |-> NoArgs]
    /\ frame = [t \in Threads |-> NoFrame]
    /\ result = [t \in Threads |-> NoResult]
    /\ songs = [id \in SongIds |-> NewSong]
    /\ comparisons = <<>>
    /\ admin_actions = <<>>
    /\ session_state = NewSession

\* Comparisons recorded in the session that is followed.
MaxComparisons == 1

\* With one comparison every call of update_rating is for two songs never
\* compared.
AppInit ==
    /\ PagesOpened
    /\ rating_table = RatingTable({NewTriple}, Outcomes)

\* merge_songs calls made in the session that is followed.
MaxMerges == 2

\* The merges that are followed, as (keep_song_id, merge_song_id).
MergeInputs == {<<1, 2>>, <<3, 1>>}

\* The pairs select_random_pair returns that are followed.
PairDraws == {<<1, 2>>, <<2, 3>>, <<3, 1>>}

AppNext ==
    \/ \E pair \in PairDraws : LoadPair(pair)
    \/ /\ Len(comparisons) < MaxComparisons
       /\ \E button \in DuelButtons : RecordOutcome(button[1], button[2])
    \/ UndoLastComparison
    \/ \E pair \in PairDraws : NextComparison(pair)
    \/ \E playlist_songs \in MixDraws : GeneratePlaylist(playlist_songs)
    \/ /\ Len(comparisons) < MaxComparisons
       /\ \E button \in PlaylistButtons :
             PlaylistRecordComparison(button[1], button[2])
    \/ UndoVote
    \/ NextSong
    \/ SkipSong
    \/ /\ Len(admin_actions) < MaxMerges
       /\ \E merge \in MergeInputs : MergeSongs(merge[1], merge[2])

AppSpec == AppInit /\ [][AppNext]_vars

(***************************************************************************)
(* One session of two comparisons on the Duel Mode and Playlist pages.     *)
(***************************************************************************)
\* Comparisons recorded in the session that is followed.
MaxRanked == 2

\* The outcome buttons pressed on the Duel Mode page.
PressedOutcomes == {<<One, "decisive_win">>, <<Zero, "decisive_loss">>}

\* The vote buttons pressed in the player.
PressedVotes == {<<Half, "equal">>, <<Zero, "landslide_curr">>}

\* The outcomes update_rating is called with: those pressed and 1 - those.
RankedOutcomes == {One, Half, Zero}

\* The triples a song has after at most one comparison.
RankedTriples ==
    {NewTriple} \cup
    {AfterTriple(UpdateRatingWith(Half, NewTriple, NewTriple, outcome)) :
        outcome \in RankedOutcomes}

RankInit ==
    /\ PagesOpened
    /\ rating_table = RatingTable(RankedTriples, RankedOutcomes)

RankNext ==
    \/ LoadPair(<<1, 2>>)
    \/ /\ Len(comparisons) < MaxRanked
       /\ \E button \in PressedOutcomes : RecordOutcome(button[1], button[2])
    \/ UndoLastComparison
    \/ NextComparison(<<1, 2>>)
    \/ GeneratePlaylist(<<1, 2, 3>>)
    \/ /\ Len(comparisons) < MaxRanked
       /\ \E button \in PressedVotes :
             PlaylistRecordComparison(button[1], button[2])
    \/ UndoVote
    \/ NextSong
    \/ SkipSong

RankSpec == RankInit /\ [][RankNext]_vars

(***************************************************************************)
(* Properties of the application.                                          *)
(***************************************************************************)
\* What update_rating returns for a song never compared against a song never
\* compared, by outcome.
NewSongUpdates ==
    [outcome \in Outcomes |->
        UpdateRatingWith(Half, NewTriple, NewTriple, outcome)]

\* update_rating of the calculator in use, worked out from the arguments.
Recomputed(song, opponent, outcome) ==
    IF /\ engine.tau = Half
       /\ song = NewTriple
       /\ opponent = NewTriple
       /\ outcome \in Outcomes
    THEN NewSongUpdates[outcome]
    ELSE UpdateRatingWith(engine.tau, song, opponent, outcome)

\* The step inserts a row into the comparisons table.
ComparisonRecorded == Len(comparisons') = Len(comparisons) + 1

\* The row the step has inserted.
NewRow == comparisons'[Len(comparisons')]

\* C21: when a comparison of songs A and B with outcome s is recorded, on
\* the Duel Mode page or in the playlist player, the before-snapshots kept
\* with the row are the two triples stored before the step, A's new triple is
\* update_rating of A's old triple against B's old rating and deviation with
\* outcome s, B's new triple is update_rating of B's old triple against A's
\* old rating and deviation with outcome 1 - s, and these are the triples the
\* songs table holds after the step (for A when A and B are two songs: with
\* one song on both sides the second write is the one that stays).
C21_BothSidesFromPreComparison ==
    [][ComparisonRecorded =>
          /\ NewRow.song_a_before = Triple(songs[NewRow.song_a_id])
          /\ NewRow.song_b_before = Triple(songs[NewRow.song_b_id])
          /\ NewRow.song_a_after =
                AfterTriple(Recomputed(Triple(songs[NewRow.song_a_id]),
                                         Triple(songs[NewRow.song_b_id]),
                                         NewRow.outcome))
          /\ NewRow.song_b_after =
                AfterTriple(Recomputed(Triple(songs[NewRow.song_b_id]),
                                         Triple(songs[NewRow.song_a_id]),
                                         FSub(One, NewRow.outcome)))
          /\ Triple(songs'[NewRow.song_b_id]) = NewRow.song_b_after
          /\ NewRow.song_a_id # NewRow.song_b_id =>
                Triple(songs'[NewRow.song_a_id]) = NewRow.song_a_after]_vars

\* A slight win of song A is on record and both songs hold its results.
C21_Witness ==
    \E i \in DOMAIN comparisons :
        /\ comparisons[i].outcome = Dec(75, 2)
        /\ comparisons[i].song_a_id # comparisons[i].song_b_id
        /\ Triple(songs[comparisons[i].song_a_id]) =
              comparisons[i].song_a_after
        /\ Triple(songs[comparisons[i].song_b_id]) =
              comparisons[i].song_b_after
        /\ comparisons[i].song_a_after # comparisons[i].song_b_after

\* The columns of a song that an undo has to bring back.
Standing(row) ==
    <<row.rating, row.rating_deviation, row.volatility, row.games_played,
      row.wins, row.losses, row.draws>>

\* The step is record_outcome of the Duel Mode page.
DuelRecorded == ComparisonRecorded /\ NewRow.comparison_mode = "duel"

\* The step is undo_last_comparison.
DuelUndone ==
    /\ session_state.last_comparison # None
    /\ session_state'.last_comparison = None

\* C22: a duel comparison that is recorded and then undone, with nothing in
\* between, leaves every song with the rating, deviation, volatility,
\* games_played, wins, losses and draws it had before the comparison, for
\* each of the five outcomes; the row is marked is_undone, so that
\* get_comparison_count is what it was, and the session's comparison_count
\* is what it was.  First conjunct: after every record_outcome the Undo button
\* is drawn and undo_last_comparison, run on the state reached, gives these
\* values back.  Second conjunct: every undo_last_comparison acts on the last
\* recorded row in this way.
C22_RecordThenUndoRoundTrip ==
    /\ [][DuelRecorded =>
            /\ session_state'.show_result
            /\ session_state'.last_comparison # None
            /\ session_state'.last_comparison.comparison_id =
                  Len(comparisons')
            /\ \A id \in SongIds :
                  Standing(SongsAfterUndo(
                               songs', session_state'.last_comparison)[id])
                     = Standing(songs[id])
            /\ GetComparisonCount(MarkUndone(comparisons', Len(comparisons')))
                  = GetComparisonCount(comparisons)
            /\ SessionAfterUndo(session_state').comparison_count =
                  session_state.comparison_count]_vars
    /\ [][DuelUndone =>
            /\ songs' = SongsAfterUndo(songs, session_state.last_comparison)
            /\ comparisons'[session_state.last_comparison.comparison_id]
                  .is_undone
            /\ GetComparisonCount(comparisons') =
                  GetComparisonCount(comparisons) - 1
            /\ session_state'.comparison_count =
                  session_state.comparison_count - 1]_vars

\* A decisive win has been recorded on the Duel Mode page and undone: both
\* songs are back at their snapshots with no game counted.
C22_Witness ==
    \E i \in DOMAIN comparisons :
        /\ comparisons[i].comparison_mode = "duel"
        /\ comparisons[i].outcome = One
        /\ comparisons[i].is_undone
        /\ session_state.last_comparison = None
        /\ session_state.comparison_count = 0
        /\ GetComparisonCount(comparisons) = 0
        /\ \A id \in {comparisons[i].song_a_id, comparisons[i].song_b_id} :
              /\ songs[id].games_played = 0
              /\ songs[id].wins = 0
              /\ songs[id].losses = 0
        /\ Triple(songs[comparisons[i].song_a_id]) =
              comparisons[i].song_a_before
        /\ Triple(songs[comparisons[i].song_b_id]) =
              comparisons[i].song_b_before

\* The triple update_rating gives row's first song when the row is recorded
\* on the triples before_a and before_b: the row's own result when these are
\* the triples it was recorded on (C21), a new call otherwise.
ReplayedA(row, before_a, before_b) ==
    IF row.song_a_before = before_a /\ row.song_b_before = before_b
    THEN row.song_a_after
    ELSE AfterTriple(Recomputed(before_a, before_b, row.outcome))

\* The same for the row's second song.
ReplayedB(row, before_a, before_b) ==
    IF row.song_a_before = before_a /\ row.song_b_before = before_b
    THEN row.song_b_after
    ELSE AfterTriple(Recomputed(before_b, before_a,
                                  FSub(One, row.outcome)))

RECURSIVE Replay(_, _)
\* The triples of all songs after the rows 1..n of tbl that are not marked
\* is_undone have been recorded, in their order, on a catalogue of new songs.
Replay(tbl, n) ==
    IF n = 0 THEN [id \in SongIds |-> Triple(NewSong)]
    ELSE IF tbl[n].is_undone THEN Replay(tbl, n - 1)
    ELSE LET before == Replay(tbl, n - 1)
             a == tbl[n].song_a_id
             b == tbl[n].song_b_id
         IN  [[before EXCEPT ![a] = ReplayedA(tbl[n], before[a], before[b])]
             EXCEPT ![b] = ReplayedB(tbl[n], before[a], before[b])]

UndoOfLatestKeepsReplay ==
    (/\ admin_actions = <<>>
     /\ comparisons # <<>>
     /\ \A i \in DOMAIN comparisons :
           comparisons[i].is_undone => i = Len(comparisons)) =>
        \A id \in SongIds :
            Triple(songs[id]) = Replay(comparisons, Len(comparisons))[id]

\* C24: in every state reached by recorded comparisons, undos on the Duel
\* Mode page, undos in the player and merges, every song has
\* games_played = wins + losses + draws and none of the four is negative.
C24_CountersAddUp ==
    \A id \in SongIds :
        /\ songs[id].games_played =
              songs[id].wins + songs[id].losses + songs[id].draws
        /\ songs[id].games_played >= 0
        /\ songs[id].wins >= 0
        /\ songs[id].losses >= 0
        /\ songs[id].draws >= 0

\* After a merge one song holds the games of two: two draws of one slight
\* outcome, or a win and a loss of one decisive outcome.
C24_Witness ==
    /\ admin_actions # <<>>
    /\ \E id \in SongIds : songs[id].games_played = 2 /\ songs[id].draws = 2
    /\ \E i \in DOMAIN comparisons :
          comparisons[i].outcome \in {Dec(75, 2), Dec(25, 2)}

\* <<wins, losses, draws>> that one game with outcome adds.
Tally(outcome) ==
    IF outcome = One THEN <<1, 0, 0>>
    ELSE IF outcome = Zero THEN <<0, 1, 0>>
    ELSE <<0, 0, 1>>

\* <<wins, losses, draws>> that the comparison of song_a_id and song_b_id
\* with outcome adds to song id.
Share(id, song_a_id, song_b_id, outcome) ==
    [k \in 1..3 |->
        (IF id = song_a_id THEN Tally(outcome)[k] ELSE 0)
      + (IF id = song_b_id THEN Tally(FSub(One, outcome))[k] ELSE 0)]

\* <<wins, losses, draws>> of a row of the songs table.
Counters(row) == <<row.wins, row.losses, row.draws>>

\* The step marks row i of the comparisons table is_undone.
Undoes(i) ==
    /\ i \in DOMAIN comparisons
    /\ ~comparisons[i].is_undone
    /\ comparisons'[i].is_undone

\* Exactly 1.0 is a win, exactly 0.0 a loss and every other outcome a draw,
\* when a comparison is recorded and when it is undone: a record adds the
\* shares of its outcome to its two songs, an undo takes the same shares away
\* (the row still names the two songs when no merge has been made).
CountersFollowOutcome ==
    [][/\ ComparisonRecorded =>
             \A id \in SongIds :
                 Counters(songs'[id]) =
                    [k \in 1..3 |->
                        Counters(songs[id])[k]
                      + Share(id, NewRow.song_a_id, NewRow.song_b_id,
                              NewRow.outcome)[k]]
       /\ \A i \in DOMAIN comparisons :
             Undoes(i) /\ admin_actions = <<>> =>
                \A id \in SongIds :
                    Counters(songs'[id]) =
                       [k \in 1..3 |->
                           Counters(songs[id])[k]
                         - Share(id, comparisons[i].song_a_id,
                                 comparisons[i].song_b_id,
                                 comparisons[i].outcome)[k]]]_vars

\* C25: no row of the comparisons table has the same song on both sides.
C25_NoSelfComparison ==
    \A i \in DOMAIN comparisons :
        comparisons[i].song_a_id # comparisons[i].song_b_id

\* select_random_pair returns two songs that differ: the pair the Duel Mode
\* page holds, and every row recorded there, has two songs as long as no merge
\* has been made.
DuelPairsDistinct ==
    /\ session_state.current_pair # None =>
          session_state.current_pair.song_a_id #
             session_state.current_pair.song_b_id
    /\ \A pair \in SelectRandomPair : pair[1] # pair[2]
    /\ admin_actions = <<>> =>
          \A i \in DOMAIN comparisons :
              comparisons[i].comparison_mode = "duel" =>
                  comparisons[i].song_a_id # comparisons[i].song_b_id

\* The stored confidence interval of row is the one of its rating.
IntervalOfRating(row) ==
    /\ row.confidence_interval_lower =
          IntervalLower(row.rating, row.rating_deviation)
    /\ row.confidence_interval_upper =
          IntervalUpper(row.rating, row.rating_deviation)

\* C26: a stored confidence interval that is not null is rating - 2*rd and
\* rating + 2*rd of the stored rating and deviation.
C26_IntervalIsOfRating ==
    \A id \in SongIds :
        songs[id].confidence_interval_lower # None => IntervalOfRating(songs[id])

\* The same as long as no vote of the player has been undone.
IntervalIsOfRatingWithoutUndoVote ==
    (\A i \in DOMAIN comparisons :
        comparisons[i].is_undone => comparisons[i].comparison_mode = "duel")
    => C26_IntervalIsOfRating

AliasOfAnotherSong ==
    \A id \in SongIds :
        songs[id].original_song_id # None =>
            songs[id].original_song_id.value # id

\* C28: with a playlist loaded and not complete the index is one of the
\* playlist's positions, and the playlist is complete exactly when the index
\* has reached its length.
C28_IndexInsidePlaylist ==
    session_state.playlist # None =>
        /\ ~session_state.playlist_complete =>
              /\ 0 <= session_state.current_index
              /\ session_state.current_index <
                    Len(session_state.playlist.songs)
        /\ session_state.playlist_complete <=>
              session_state.current_index >=
                 Len(session_state.playlist.songs)

\* The same for the playlists of two songs and more.
IndexInsideLongerPlaylist ==
    (/\ session_state.playlist # None
     /\ Len(session_state.playlist.songs) >= 2) => C28_IndexInsidePlaylist

====
